---- MODULE Spec2Model ----
(***************************************************************************)
(* A model of the SignMaker image layout / composition engine              *)
(* (image_generator.py) and of its rasterizer (svg_renderer.py).           *)
(*                                                                         *)
(* Python floats are modelled by exact rationals <<numerator, denominator>>*)
(* in lowest terms with a positive denominator, so equalities of the model *)
(* are equalities of the real-number values the code computes.             *)
(***************************************************************************)
EXTENDS Integers, Sequences, FiniteSets, TLC

VARIABLES
    csvFile,        \* assets/layout_modes.csv on disk: [exists, rows]
    LAYOUT_BOUNDS,  \* the module-level dict of image_generator.py
    layout,         \* outcome of the latest _calculate_layout call
    product,        \* the product record (a database row) being rendered
    assets,         \* the template files present in ASSETS_DIR
    gen,            \* generate_all_images_for_product: loop position, images
    log,            \* records written through the logging module
    call,           \* the latest single call into the facade and how it ended
    caller,         \* per request thread: its call into svg_renderer
    futures,        \* the futures of the executor, in submission order
    workQueue,      \* the executor's work queue (indices of futures)
    worker,         \* per executor thread: the future it is running, or 0
    engine,         \* _browser, _playwright_instance, _initialized
    touched,        \* the threads that have read or written the handles
    req,            \* per request thread: its position inside _calculate_layout
    saves,          \* the versions of layout_modes.csv saved so far, in order
    jobHeap,        \* the Job objects created so far, in creation order
    _jobs,          \* jobs.py: job id -> Job object (its place in jobHeap)
    _job_queue,     \* jobs.py: the queue of (job_id, func, args, kwargs)
    _workers_started, \* jobs.py: the flag of start_workers
    jobThread,      \* the worker threads started so far: position in _worker
    submitter,      \* per request thread: its position inside submit_job
    runs,           \* every call of a job function made by a worker
    now,            \* the clock read by datetime.now(), in seconds
    cleared,        \* the latest call of clear_completed_jobs
    impl,           \* the executor thread's position inside a render function
    contexts,       \* the browser contexts that are open
    pages,          \* the pages that are open
    tempFiles,      \* the temporary SVG files on disk
    batch           \* generate_images_job: its job, position and results

layoutVars == <<csvFile, LAYOUT_BOUNDS, layout>>
facadeVars == <<product, assets, gen, log, call>>
renderVars == <<caller, futures, workQueue, worker, engine, touched>>
threadVars == <<req, saves>>
jobVars == <<jobHeap, _jobs, _job_queue, _workers_started, jobThread, submitter, runs, now, cleared>>
pageVars == <<impl, contexts, pages, tempFiles>>
batchVars == <<batch>>
restVars == <<threadVars, jobVars, pageVars, batchVars>>

----------------------------------------------------------------------------
(* Rational arithmetic *)

Abs(n) == IF n < 0 THEN -n ELSE n

RECURSIVE GCD(_, _)
GCD(a, b) == IF b = 0 THEN a ELSE GCD(b, a % b)

Rat(n, d) ==
    LET s == IF d < 0 THEN -1 ELSE 1
        g == GCD(Abs(n), Abs(d))
    IN  <<(s * n) \div g, (s * d) \div g>>

R(n) == <<n, 1>>
RAdd(a, b) == Rat(a[1] * b[2] + b[1] * a[2], a[2] * b[2])
RSub(a, b) == Rat(a[1] * b[2] - b[1] * a[2], a[2] * b[2])
RMul(a, b) == Rat(a[1] * b[1], a[2] * b[2])
RDiv(a, b) == Rat(a[1] * b[2], a[2] * b[1])
RLess(a, b) == a[1] * b[2] < b[1] * a[2]
RMin(a, b) == IF RLess(b, a) THEN b ELSE a

----------------------------------------------------------------------------
(* Compiled-in size tables *)

SIZES ==
    [saville    |-> <<115, 95, FALSE>>,
     dick       |-> <<140, 90, FALSE>>,
     barzan     |-> <<194, 143, FALSE>>,
     dracula    |-> <<95, 95, TRUE>>,
     baby_jesus |-> <<290, 190, FALSE>>]

TEMPLATE_SIGN_BOUNDS ==
    [saville    |-> <<30, 24, 93, 73>>,
     dick       |-> <<25, 30, 110, 60>>,
     barzan     |-> <<25, 25, 164, 113>>,
     dracula    |-> <<37, 27, 85, 85>>,
     baby_jesus |-> <<25, 25, 240, 140>>]

\* SignBounds and its derived properties
SignBounds(x, y, width, height, is_circular, padding) ==
    [x |-> x, y |-> y, width |-> width, height |-> height,
     is_circular |-> is_circular, padding |-> padding]

inner_x(b) == RAdd(b.x, b.padding)
inner_y(b) == RAdd(b.y, b.padding)
\* A variant of the inset width that takes the padding off one side only
inner_width_OneSide(b) == RSub(b.width, b.padding)

inner_width(b) == RSub(b.width, RMul(R(2), b.padding))
inner_height(b) == RSub(b.height, RMul(R(2), b.padding))
center_x(b) == RAdd(b.x, RDiv(b.width, R(2)))
center_y(b) == RAdd(b.y, RDiv(b.height, R(2)))

\* A variant of the resolver below that swaps width and height for every size
_get_sign_bounds_SwapAll(size, orientation) ==
    IF size \notin DOMAIN SIZES
    THEN [raised |-> "KeyError"]
    ELSE
      LET is_circular == SIZES[size][3]
          tpl == TEMPLATE_SIGN_BOUNDS[size]
          swap == orientation = "portrait"
      IN  [raised |-> "none",
           bounds |-> SignBounds(R(tpl[1]), R(tpl[2]),
                                 R(IF swap THEN tpl[4] ELSE tpl[3]),
                                 R(IF swap THEN tpl[3] ELSE tpl[4]),
                                 is_circular,
                                 IF is_circular THEN R(4) ELSE R(3))]

\* _get_sign_bounds: SIZES[size] raises KeyError for a size that is no key.
_get_sign_bounds(size, orientation) ==
    IF size \notin DOMAIN SIZES
    THEN [raised |-> "KeyError"]
    ELSE
      LET is_circular == SIZES[size][3]
          tpl == IF size \in DOMAIN TEMPLATE_SIGN_BOUNDS
                 THEN TEMPLATE_SIGN_BOUNDS[size]
                 ELSE <<20, 20, SIZES[size][1] - 2 * 20, SIZES[size][2] - 2 * 20>>
          swap == size = "baby_jesus" /\ orientation = "portrait"
          sign_w == IF swap THEN tpl[4] ELSE tpl[3]
          sign_h == IF swap THEN tpl[3] ELSE tpl[4]
      IN  [raised |-> "none",
           bounds |-> SignBounds(R(tpl[1]), R(tpl[2]), R(sign_w), R(sign_h),
                                 is_circular,
                                 IF is_circular THEN R(4) ELSE R(3))]

----------------------------------------------------------------------------
(* The layout data file and its loader *)

\* A cell of a short row: csv.DictReader fills missing trailing cells with None.
PyNone == "<None>"

\* float(cell) for the numerals the model writes in the file; every other
\* string makes float() raise ValueError, None makes it raise TypeError.
FloatLiteral ==
    ("0" :> R(0)) @@ ("10" :> R(10)) @@ ("12" :> R(12)) @@ ("20" :> R(20)) @@
    ("30" :> R(30)) @@ ("40" :> R(40)) @@ ("60" :> R(60)) @@
    ("12.5" :> Rat(25, 2)) @@
    ("46.05" :> Rat(4605, 100)) @@ ("37.05" :> Rat(3705, 100)) @@
    ("60.9" :> Rat(609, 10)) @@ ("46.9" :> Rat(469, 10))

float(cell) ==
    IF cell = PyNone THEN [raised |-> "TypeError"]
    ELSE IF cell \in DOMAIN FloatLiteral
         THEN [raised |-> "none", value |-> FloatLiteral[cell]]
         ELSE [raised |-> "ValueError"]

EmptyTable == [k \in {} |-> k]

KeyOf(row) ==
    <<row.template, row.size, row.orientation, row.layout_mode, row.element>>

Store(table, key, value) ==
    [k \in DOMAIN table \cup {key} |-> IF k = key THEN value ELSE table[k]]

\* The for-loop of _load_layout_bounds from row i on: each row is converted
\* and stored under its key; a conversion that raises leaves the rows before
\* it stored and propagates.
RECURSIVE LoadRows(_, _, _)
LoadRows(table, rows, i) ==
    IF i > Len(rows) THEN [table |-> table, raised |-> "none"]
    ELSE
      LET row == rows[i]
          fx == float(row.x)
          fy == float(row.y)
          fw == float(row.width)
          fh == float(row.height)
          bad == SelectSeq(<<fx, fy, fw, fh>>, LAMBDA f : f.raised # "none")
      IN  IF Len(bad) > 0
          THEN [table |-> table, raised |-> bad[1].raised]
          ELSE LoadRows(Store(table, KeyOf(row),
                              [x |-> fx.value, y |-> fy.value,
                               width |-> fw.value, height |-> fh.value]),
                        rows, i + 1)

\* _load_layout_bounds: returns without touching the dict when the file does
\* not exist; otherwise adds the file's rows to the dict it already holds.
_load_layout_bounds(table, file) ==
    IF ~file.exists THEN [table |-> table, raised |-> "none"]
    ELSE LoadRows(table, file.rows, 1)

----------------------------------------------------------------------------
(* Layout calculator *)

LayoutResult(icon_x, icon_y, icon_width, icon_height, text_elements, branch) ==
    [icon_x |-> icon_x, icon_y |-> icon_y,
     icon_width |-> icon_width, icon_height |-> icon_height,
     text_elements |-> text_elements,
     branch |-> branch]      \* which return statement produced the result

TextElement(text, x, y, font_size) ==
    [text |-> text, x |-> x, y |-> y, font_size |-> font_size,
     anchor |-> "middle"]

\* f"text_{idx + 1}" for the 0-based idx of enumerate(); i is idx + 1
TextSlot(i) == <<"text_1", "text_2", "text_3">>[i]

\* A variant of the filter below that keeps every line
ActiveLines_KeepEmpty(text_lines) == text_lines

\* active_lines = [t for t in text_lines if t]
ActiveLines(text_lines) ==
    SelectSeq(text_lines, LAMBDA t : t # "" /\ t # PyNone)

\* The icon rectangle of the data-driven branch: the table box scaled by
\* icon_scale about its own centre.
\* A variant that scales the box from its top-left corner.
DataDrivenIcon_TopLeft(icon_bounds, icon_scale) ==
    [icon_x |-> icon_bounds.x,
     icon_y |-> icon_bounds.y,
     icon_width |-> RMul(icon_bounds.width, icon_scale),
     icon_height |-> RMul(icon_bounds.height, icon_scale)]

DataDrivenIcon(icon_bounds, icon_scale) ==
    LET base_width == icon_bounds.width
        base_height == icon_bounds.height
        base_x == icon_bounds.x
        base_y == icon_bounds.y
        icon_width == RMul(base_width, icon_scale)
        icon_height == RMul(base_height, icon_scale)
    IN  [icon_x |-> RAdd(base_x, RDiv(RSub(base_width, icon_width), R(2))),
         icon_y |-> RAdd(base_y, RDiv(RSub(base_height, icon_height), R(2))),
         icon_width |-> icon_width,
         icon_height |-> icon_height]

\* A variant of the element below that allows 3.0 units per character
DataDrivenTextElement_CharWidth3(tb, line, text_scale) ==
    LET num_chars == IF line # "" THEN Len(line) ELSE 1
        by_width == RDiv(tb.width, RMul(R(num_chars), R(3)))
        max_by_height == RDiv(tb.height, R(3))
    IN  TextElement(line,
                    RAdd(tb.x, RDiv(tb.width, R(2))),
                    RAdd(tb.y, RMul(tb.height, Rat(75, 100))),
                    RMul(RMin(by_width, max_by_height), text_scale))

\* A variant of the element below without the cap by the box height
DataDrivenTextElement_NoCap(tb, line, text_scale) ==
    LET num_chars == IF line # "" THEN Len(line) ELSE 1
        by_width == RDiv(tb.width, RMul(R(num_chars), Rat(32, 10)))
    IN  TextElement(line,
                    RAdd(tb.x, RDiv(tb.width, R(2))),
                    RAdd(tb.y, RMul(tb.height, Rat(75, 100))),
                    RMul(by_width, text_scale))

\* One text element of the data-driven branch, from its table box tb.
DataDrivenTextElement(tb, line, text_scale) ==
    LET num_chars == IF line # "" THEN Len(line) ELSE 1
        by_width == RDiv(tb.width, RMul(R(num_chars), Rat(32, 10)))
        max_by_height == RDiv(tb.height, R(3))
        font_size == RMul(RMin(by_width, max_by_height), text_scale)
    IN  TextElement(line,
                    RAdd(tb.x, RDiv(tb.width, R(2))),
                    RAdd(tb.y, RMul(tb.height, Rat(75, 100))),
                    font_size)

\* The loop over enumerate(active_lines) of the data-driven branch, from the
\* i-th active line on.
RECURSIVE DataDrivenText(_, _, _, _, _)
DataDrivenText(table, key4, active_lines, text_scale, i) ==
    IF i > Len(active_lines) THEN <<>>
    ELSE
      LET text_key == key4 \o <<TextSlot(i)>>
          rest == DataDrivenText(table, key4, active_lines, text_scale, i + 1)
      IN  IF text_key \in DOMAIN table
          THEN <<DataDrivenTextElement(table[text_key], active_lines[i],
                                       text_scale)>> \o rest
          ELSE rest

\* A variant of the stack below that puts every line at the same y
FallbackText_SameLine(active_lines, x, text_y, max_font_size, i) ==
    [k \in 1..Len(active_lines) |->
        TextElement(active_lines[k], x, text_y, max_font_size)]

\* The text stack of fallback modes B and C: one element per active line,
\* text_y advancing by max_font_size + 2.
RECURSIVE FallbackText(_, _, _, _, _)
FallbackText(active_lines, x, text_y, max_font_size, i) ==
    IF i > Len(active_lines) THEN <<>>
    ELSE <<TextElement(active_lines[i], x, text_y, max_font_size)>>
         \o FallbackText(active_lines, x,
                         RAdd(text_y, RAdd(max_font_size, R(2))),
                         max_font_size, i + 1)

\* A variant of the fallback below that moves the B/C icon towards smaller y
GeometricLayout_OffsetUp(bounds, layout_mode, active_lines, icon_scale, text_scale) ==
    LET inner_w == inner_width(bounds)
        inner_h == inner_height(bounds)
        max_font_size == RMul(R(5), text_scale)
    IN  IF layout_mode = "A" THEN
          LET icon_width == RMul(RMul(inner_w, Rat(7, 10)), icon_scale)
              icon_height == RMul(RMul(inner_h, Rat(7, 10)), icon_scale)
          IN  LayoutResult(RSub(center_x(bounds), RDiv(icon_width, R(2))),
                           RSub(center_y(bounds), RDiv(icon_height, R(2))),
                           icon_width, icon_height, <<>>, "geometric")
        ELSE IF layout_mode \in {"B", "C"} THEN
          LET icon_height == RMul(RMul(inner_h, Rat(90, 100)), icon_scale)
              icon_width == icon_height
              icon_x == RSub(center_x(bounds), RDiv(icon_width, R(2)))
              icon_y == RSub(RSub(center_y(bounds), RDiv(icon_height, R(2))),
                             RMul(icon_height, Rat(8, 100)))
              icon_bottom == RAdd(icon_y, icon_height)
              text_y == RAdd(icon_bottom, RMul(inner_h, Rat(5, 100)))
          IN  LayoutResult(icon_x, icon_y, icon_width, icon_height,
                           FallbackText(active_lines, center_x(bounds), text_y,
                                        max_font_size, 1),
                           "geometric")
        ELSE
          LET icon_width == RMul(RMul(inner_w, Rat(6, 10)), icon_scale)
              icon_height == RMul(RMul(inner_h, Rat(6, 10)), icon_scale)
          IN  LayoutResult(RSub(center_x(bounds), RDiv(icon_width, R(2))),
                           RSub(center_y(bounds), RDiv(icon_height, R(2))),
                           icon_width, icon_height, <<>>, "geometric")

\* The geometric fallback of _calculate_layout.
GeometricLayout(bounds, layout_mode, active_lines, icon_scale, text_scale) ==
    LET inner_w == inner_width(bounds)
        inner_h == inner_height(bounds)
        max_font_size == RMul(R(5), text_scale)
    IN  IF layout_mode = "A" THEN
          LET icon_width == RMul(RMul(inner_w, Rat(7, 10)), icon_scale)
              icon_height == RMul(RMul(inner_h, Rat(7, 10)), icon_scale)
          IN  LayoutResult(RSub(center_x(bounds), RDiv(icon_width, R(2))),
                           RSub(center_y(bounds), RDiv(icon_height, R(2))),
                           icon_width, icon_height, <<>>, "geometric")
        ELSE IF layout_mode \in {"B", "C"} THEN
          LET icon_height == RMul(RMul(inner_h, Rat(90, 100)), icon_scale)
              icon_width == icon_height
              icon_x == RSub(center_x(bounds), RDiv(icon_width, R(2)))
              icon_y == RAdd(RSub(center_y(bounds), RDiv(icon_height, R(2))),
                             RMul(icon_height, Rat(8, 100)))
              icon_bottom == RAdd(icon_y, icon_height)
              text_y == RAdd(icon_bottom, RMul(inner_h, Rat(5, 100)))
          IN  LayoutResult(icon_x, icon_y, icon_width, icon_height,
                           FallbackText(active_lines, center_x(bounds), text_y,
                                        max_font_size, 1),
                           "geometric")
        ELSE
          LET icon_width == RMul(RMul(inner_w, Rat(6, 10)), icon_scale)
              icon_height == RMul(RMul(inner_h, Rat(6, 10)), icon_scale)
          IN  LayoutResult(RSub(center_x(bounds), RDiv(icon_width, R(2))),
                           RSub(center_y(bounds), RDiv(icon_height, R(2))),
                           icon_width, icon_height, <<>>, "geometric")

\* A variant of the calculation below that never consults the table
LayoutFrom_GeometricOnly(table, bounds, layout_mode, text_lines, icon_scale, text_scale, size, orientation) ==
    GeometricLayout(bounds, layout_mode, ActiveLines(text_lines),
                    icon_scale, text_scale)

\* A variant of the calculation below whose fallback takes its text elements
\* from the text entries of the table
LayoutFrom_Hybrid(table, bounds, layout_mode, text_lines, icon_scale, text_scale, size, orientation) ==
    LET active_lines == ActiveLines(text_lines)
        key4 == <<"main", size, orientation, layout_mode>>
        icon_key == key4 \o <<"icon">>
        geo == GeometricLayout(bounds, layout_mode, active_lines,
                               icon_scale, text_scale)
    IN  IF icon_key \in DOMAIN table
        THEN LET icon == DataDrivenIcon(table[icon_key], icon_scale)
             IN  LayoutResult(icon.icon_x, icon.icon_y,
                              icon.icon_width, icon.icon_height,
                              DataDrivenText(table, key4, active_lines,
                                             text_scale, 1),
                              "data")
        ELSE [geo EXCEPT !.text_elements =
                 DataDrivenText(table, key4, active_lines, text_scale, 1)]

\* _calculate_layout after its reload: table is LAYOUT_BOUNDS as the reload
\* left it.
LayoutFrom(table, bounds, layout_mode, text_lines, icon_scale, text_scale, size, orientation) ==
    LET active_lines == ActiveLines(text_lines)
        key4 == <<"main", size, orientation, layout_mode>>
        icon_key == key4 \o <<"icon">>
    IN  IF icon_key \in DOMAIN table
        THEN LET icon == DataDrivenIcon(table[icon_key], icon_scale)
             IN  LayoutResult(icon.icon_x, icon.icon_y,
                              icon.icon_width, icon.icon_height,
                              DataDrivenText(table, key4, active_lines,
                                             text_scale, 1),
                              "data")
        ELSE GeometricLayout(bounds, layout_mode, active_lines,
                             icon_scale, text_scale)

\* The arguments of a call; the callers always pass the bounds of
\* _get_sign_bounds(size, orientation).
CallArgs(size, orientation, layout_mode, text_lines, icon_scale, text_scale) ==
    [size |-> size, orientation |-> orientation, layout_mode |-> layout_mode,
     text_lines |-> text_lines, icon_scale |-> icon_scale,
     text_scale |-> text_scale]

\* _calculate_layout as a function of the dict and the file it finds:
\* the reload, then the calculation; an exception of the reload propagates.
_calculate_layout(table, file, a) ==
    LET loaded == _load_layout_bounds(table, file)
        bounds == _get_sign_bounds(a.size, a.orientation).bounds
    IN  IF loaded.raised # "none"
        THEN [status |-> "raised", exc |-> loaded.raised, args |-> a,
              table |-> loaded.table]
        ELSE [status |-> "ok", args |-> a, table |-> loaded.table,
              result |-> LayoutFrom(loaded.table, bounds, a.layout_mode,
                                    a.text_lines, a.icon_scale, a.text_scale,
                                    a.size, a.orientation)]

NoLayout == [status |-> "none"]

\* A call of _calculate_layout on a request thread.
CalculateLayout(a) ==
    LET out == _calculate_layout(LAYOUT_BOUNDS, csvFile, a)
    IN  /\ LAYOUT_BOUNDS' = out.table
        /\ layout' = [f \in DOMAIN out \ {"table"} |-> out[f]]
        /\ UNCHANGED csvFile

----------------------------------------------------------------------------
(* The layout data file being edited while the process runs *)

Row(size, layout_mode, element, x, y, width, height) ==
    [template |-> "main", size |-> size, orientation |-> "landscape",
     layout_mode |-> layout_mode, element |-> element,
     x |-> x, y |-> y, width |-> width, height |-> height]

WellFormedRows ==
    { Row("saville", "A", "icon", "10", "20", "40", "30"),
      Row("saville", "A", "icon", "12.5", "20", "60", "30"),
      Row("saville", "A", "text_1", "10", "60", "40", "10"),
      Row("saville", "B", "icon", "20", "20", "30", "30") }

MalformedRows ==
    { Row("saville", "A", "icon", "abc", "20", "40", "30"),   \* non-numeric
      Row("saville", "A", "text_1", "10", "60", "", "10"),    \* empty cell
      Row("saville", "B", "icon", "20", "20", PyNone, PyNone) } \* short row

RowChoices == WellFormedRows \cup MalformedRows

MaxRows == 2

NoFile == [exists |-> FALSE, rows |-> <<>>]
File(rows) == [exists |-> TRUE, rows |-> rows]

RemoveAt(seq, i) == SubSeq(seq, 1, i - 1) \o SubSeq(seq, i + 1, Len(seq))

\* The editor saves the file with one more row.
EditAddRow ==
    /\ csvFile.exists
    /\ Len(csvFile.rows) < MaxRows
    /\ \E r \in RowChoices : csvFile' = File(Append(csvFile.rows, r))
    /\ layout' = NoLayout
    /\ UNCHANGED <<LAYOUT_BOUNDS, facadeVars, renderVars, restVars>>

\* The editor saves the file with one row removed.
EditRemoveRow ==
    /\ csvFile.exists
    /\ \E i \in 1..Len(csvFile.rows) : csvFile' = File(RemoveAt(csvFile.rows, i))
    /\ layout' = NoLayout
    /\ UNCHANGED <<LAYOUT_BOUNDS, facadeVars, renderVars, restVars>>

\* The editor saves the file with one row changed.
EditChangeRow ==
    /\ csvFile.exists
    /\ \E i \in 1..Len(csvFile.rows), r \in RowChoices :
          /\ r # csvFile.rows[i]
          /\ csvFile' = File([csvFile.rows EXCEPT ![i] = r])
    /\ layout' = NoLayout
    /\ UNCHANGED <<LAYOUT_BOUNDS, facadeVars, renderVars, restVars>>

EditDeleteFile ==
    /\ csvFile.exists
    /\ csvFile' = NoFile
    /\ layout' = NoLayout
    /\ UNCHANGED <<LAYOUT_BOUNDS, facadeVars, renderVars, restVars>>

EditCreateFile ==
    /\ ~csvFile.exists
    /\ csvFile' = File(<<>>)
    /\ layout' = NoLayout
    /\ UNCHANGED <<LAYOUT_BOUNDS, facadeVars, renderVars, restVars>>

TextChoices ==
    { <<"", "", "">>, <<"STOP", "", "">>, <<"NO", "", "ENTRY">>,
      <<"A", "BB", "CCC">>, <<"", "STOP", "">>, <<PyNone, "GO", "SLOW">> }

\* The calls made while the file is edited.
LayoutCalls ==
    { CallArgs("saville", "landscape", m, t, R(1), R(1)) :
        m \in {"A", "B"}, t \in {<<"STOP", "", "">>} }

LayoutCall ==
    /\ \E a \in LayoutCalls : CalculateLayout(a)
    /\ UNCHANGED <<facadeVars, renderVars, restVars>>

----------------------------------------------------------------------------
(* The layout calculation applied to drawn inputs *)

IconScales == { Rat(n, 100) : n \in {50, 75, 100, 125, 150} }
TextScales == {R(1), R(2)}
LayoutModes == {"A", "B", "C", "D"}
Orientations == {"landscape", "portrait"}

CalcCalls ==
    { CallArgs(s, o, m, t, i, ts) :
        s \in DOMAIN SIZES, o \in Orientations, m \in LayoutModes,
        t \in TextChoices, i \in IconScales, ts \in TextScales }

CalcFiles ==
    { NoFile, File(<<>>),
      File(<<Row("saville", "A", "icon", "10", "20", "40", "30")>>),
      File(<<Row("saville", "A", "icon", "12.5", "20", "60", "30"),
             Row("saville", "A", "text_1", "10", "60", "40", "10")>>),
      File(<<Row("saville", "B", "icon", "20", "20", "30", "30"),
             Row("saville", "B", "text_2", "0", "60", "40", "12")>>),
      \* the box the mode-A formula gives for saville, written as an entry
      File(<<Row("saville", "A", "icon", "46.05", "37.05", "60.9", "46.9")>>),
      \* a text box high enough for a 10 mm font
      File(<<Row("saville", "A", "icon", "10", "20", "40", "30"),
             Row("saville", "A", "text_1", "10", "60", "40", "30")>>),
      \* text entries without an icon entry
      File(<<Row("saville", "A", "text_1", "10", "60", "40", "10"),
             Row("saville", "B", "text_1", "10", "60", "40", "10")>>) }

CalcPending ==
    /\ layout.status = "pending"
    /\ CalculateLayout(layout.args)
    /\ UNCHANGED <<facadeVars, renderVars, restVars>>

----------------------------------------------------------------------------
(* Asset injector and product image facade *)

\* A numeric column of the products table: NULL or a number
Null == [null |-> TRUE]
Num(r) == [num |-> r]

\* product.get(key, default): the default only when the key is missing
Get(p, key, default) == IF key \in DOMAIN p THEN p[key] ELSE default

\* float(product.get(key, default) or default)
FloatOr(p, key, default) ==
    LET v == Get(p, key, Num(default))
    IN  IF v = Null THEN default
        ELSE IF v.num = R(0) THEN default ELSE v.num

\* str.lower() and str.upper() on the values the model writes
LowerCase == ("SAVILLE" :> "saville") @@ ("Silver" :> "silver") @@
             ("Portrait" :> "portrait") @@ (".SVG" :> ".svg") @@ (".PNG" :> ".png")
UpperCase == ("a" :> "A") @@ ("b" :> "B")
lower(str) == IF str \in DOMAIN LowerCase THEN LowerCase[str] ELSE str
upper(str) == IF str \in DOMAIN UpperCase THEN UpperCase[str] ELSE str

FONTS ==
    [arial_bold |-> <<"Arial", "bold">>, arial_heavy |-> <<"Arial Black", "normal">>]

\* A file name of ICONS_DIR: Path.stem and Path.suffix
IconFile(stem, suffix) == [stem |-> stem, suffix |-> suffix]

\* A piece of icon_files.split(",") that strip() leaves empty
Blank == IconFile("", "")

\* The files of ICONS_DIR with the intrinsic width and height of each
\* (the width/height attributes of an SVG root, the pixel size of a PNG).
ICONS ==
    (IconFile("stop", ".svg") :> <<100, 100>>) @@
    (IconFile("arrow", ".png") :> <<200, 100>>) @@
    (IconFile("notes", ".txt") :> <<0, 0>>)

\* _load_icon: the literal name, else the stem with .svg, .png, .SVG, .PNG;
\* a warning and (None, None) when nothing exists, (None, None) without a
\* warning for a file that is neither .svg nor .png.
_load_icon(icon_filename) ==
    LET exts == <<".svg", ".png", ".SVG", ".PNG">>
        alts == SelectSeq(exts,
                   LAMBDA e : IconFile(icon_filename.stem, e) \in DOMAIN ICONS)
        icon_path == IF icon_filename \in DOMAIN ICONS THEN icon_filename
                     ELSE IF Len(alts) > 0
                          THEN IconFile(icon_filename.stem, alts[1])
                          ELSE icon_filename
    IN  IF icon_path \notin DOMAIN ICONS
        THEN [type |-> "None", warning |-> TRUE]
        ELSE IF lower(icon_path.suffix) = ".svg"
             THEN [type |-> "svg", warning |-> FALSE, path |-> icon_path,
                   size |-> ICONS[icon_path]]
        ELSE IF lower(icon_path.suffix) = ".png"
             THEN [type |-> "png", warning |-> FALSE, path |-> icon_path,
                   size |-> ICONS[icon_path]]
        ELSE [type |-> "None", warning |-> FALSE]

\* A variant of the scale below that takes the larger ratio
FitScale_Max(width, height, icon_w, icon_h) ==
    LET scale_x == IF icon_w # 0 THEN RDiv(width, R(icon_w)) ELSE R(1)
        scale_y == IF icon_h # 0 THEN RDiv(height, R(icon_h)) ELSE R(1)
    IN  IF RLess(scale_x, scale_y) THEN scale_y ELSE scale_x

\* The uniform scale and the centred origin shared by both injectors
FitScale(width, height, icon_w, icon_h) ==
    LET scale_x == IF icon_w # 0 THEN RDiv(width, R(icon_w)) ELSE R(1)
        scale_y == IF icon_h # 0 THEN RDiv(height, R(icon_h)) ELSE R(1)
    IN  RMin(scale_x, scale_y)

\* _inject_icon: the <g> node appended to the template root
_inject_icon(icon, x, y, width, height) ==
    LET icon_w == icon.size[1]
        icon_h == icon.size[2]
        scale == FitScale(width, height, icon_w, icon_h)
        scaled_w == RMul(R(icon_w), scale)
        scaled_h == RMul(R(icon_h), scale)
    IN  [tag |-> "g", id |-> "injected_icon", src |-> icon.path,
         translate |-> <<RAdd(x, RDiv(RSub(width, scaled_w), R(2))),
                         RAdd(y, RDiv(RSub(height, scaled_h), R(2)))>>,
         scale |-> scale]

\* _inject_png_icon: the <image> node appended to the template root
_inject_png_icon(icon, x, y, width, height) ==
    LET orig_w == icon.size[1]
        orig_h == icon.size[2]
        scale == FitScale(width, height, orig_w, orig_h)
        scaled_w == RMul(R(orig_w), scale)
        scaled_h == RMul(R(orig_h), scale)
    IN  [tag |-> "image", src |-> icon.path,
         x |-> RAdd(x, RDiv(RSub(width, scaled_w), R(2))),
         y |-> RAdd(y, RDiv(RSub(height, scaled_h), R(2))),
         width |-> scaled_w, height |-> scaled_h]

\* _add_text_element: the <text> node appended to the template root
_add_text_element(e, font_family, font_weight) ==
    [tag |-> "text", text |-> e.text, x |-> e.x, y |-> e.y,
     font_size |-> e.font_size, anchor |-> e.anchor,
     font_family |-> font_family, font_weight |-> font_weight]

\* The "for icon_file in icon_files" loop from the i-th name on, with a
\* variant that leaves the loop at the first name that cannot be loaded.
RECURSIVE InjectIcons_StopAtMissing(_, _, _, _, _, _)
InjectIcons_StopAtMissing(icon_files, x, y, width, height, i) ==
    IF i > Len(icon_files) THEN [nodes |-> <<>>, warnings |-> <<>>]
    ELSE
      LET icon == _load_icon(icon_files[i])
          rest == InjectIcons_StopAtMissing(icon_files, x, y, width, height, i + 1)
          warn == IF icon.warning THEN <<icon_files[i]>> ELSE <<>>
      IN  IF icon.type = "svg"
          THEN [nodes |-> <<_inject_icon(icon, x, y, width, height)>> \o rest.nodes,
                warnings |-> rest.warnings]
          ELSE IF icon.type = "png"
          THEN [nodes |-> <<_inject_png_icon(icon, x, y, width, height)>> \o rest.nodes,
                warnings |-> rest.warnings]
          ELSE [nodes |-> <<>>, warnings |-> warn]

RECURSIVE InjectIcons(_, _, _, _, _, _)
InjectIcons(icon_files, x, y, width, height, i) ==
    IF i > Len(icon_files) THEN [nodes |-> <<>>, warnings |-> <<>>]
    ELSE
      LET icon == _load_icon(icon_files[i])
          rest == InjectIcons(icon_files, x, y, width, height, i + 1)
          warn == IF icon.warning THEN <<icon_files[i]>> ELSE <<>>
      IN  IF icon.type = "svg"
          THEN [nodes |-> <<_inject_icon(icon, x, y, width, height)>> \o rest.nodes,
                warnings |-> warn \o rest.warnings]
          ELSE IF icon.type = "png"
          THEN [nodes |-> <<_inject_png_icon(icon, x, y, width, height)>> \o rest.nodes,
                warnings |-> warn \o rest.warnings]
          ELSE [nodes |-> <<>> \o rest.nodes, warnings |-> warn \o rest.warnings]

\* The "for text_elem in layout.text_elements" loop
AddTexts(text_elements, font) ==
    LET pair == IF font \in DOMAIN FONTS THEN FONTS[font] ELSE <<"Arial", "bold">>
    IN  [i \in 1..Len(text_elements) |->
            _add_text_element(text_elements[i], pair[1], pair[2])]

\* The template file name f"{color}_{size}[_portrait]_{template_type}.svg",
\* kept as its parts
TemplateName(color, size, orientation, template_type) ==
    IF size = "baby_jesus" /\ orientation = "portrait"
    THEN <<color, size, "portrait", template_type>>
    ELSE <<color, size, template_type>>

Raise(exc, table, lay) ==
    [raised |-> exc, table |-> table, layout |-> lay, warnings |-> <<>>]

\* A variant of the composition below that applies the horizontal offset only
ComposeDocument_OffsetXOnly(template_name, icon_files, font, offset, calc, render) ==
    IF calc.status = "raised"
    THEN Raise(calc.exc, calc.table,
               [status |-> "raised", exc |-> calc.exc, args |-> calc.args])
    ELSE
    LET inj == InjectIcons(icon_files, RAdd(calc.result.icon_x, offset[1]),
                           calc.result.icon_y,
                           calc.result.icon_width, calc.result.icon_height, 1)
    IN  [raised |-> IF render = "png" THEN "none" ELSE render,
         table |-> calc.table,
         layout |-> [status |-> "ok", args |-> calc.args, result |-> calc.result],
         warnings |-> inj.warnings,
         doc |-> [template |-> template_name,
                  nodes |-> inj.nodes \o AddTexts(calc.result.text_elements, font)]]

\* Lines 407-430 of generate_product_image: the offsets, the icon loop, the
\* text loop and the rasterizer call, given what _calculate_layout gave
\* (`calc`) and what the rasterizer answers (`render`).
ComposeDocument(template_name, icon_files, font, offset, calc, render) ==
    IF calc.status = "raised"
    THEN Raise(calc.exc, calc.table,
               [status |-> "raised", exc |-> calc.exc, args |-> calc.args])
    ELSE
    LET final_icon_x == RAdd(calc.result.icon_x, offset[1])
        final_icon_y == RAdd(calc.result.icon_y, offset[2])
        inj == InjectIcons(icon_files, final_icon_x, final_icon_y,
                           calc.result.icon_width, calc.result.icon_height, 1)
    IN  [raised |-> IF render = "png" THEN "none" ELSE render,
         table |-> calc.table,
         layout |-> [status |-> "ok", args |-> calc.args, result |-> calc.result],
         warnings |-> inj.warnings,
         doc |-> [template |-> template_name,
                  nodes |-> inj.nodes \o AddTexts(calc.result.text_elements, font)]]

\* generate_product_image: the outcome of the call when the rasterizer
\* answers `render` ("png" or the exception that render_svg_to_bytes raises).
\* table/file are LAYOUT_BOUNDS and the layout data file as the call finds
\* them, lay the latest layout outcome.
generate_product_image(p, template_type, table, file, dir, lay, render) ==
    LET size_v == Get(p, "size", "saville")
        color_v == Get(p, "color", "silver")
        orientation_v == Get(p, "orientation", "landscape")
        layout_mode_v == Get(p, "layout_mode", "A")
    IN  IF PyNone \in {size_v, color_v, orientation_v, layout_mode_v}
        THEN Raise("AttributeError", table, lay)
        ELSE
        LET size == lower(size_v)
            orientation == lower(orientation_v)
            icon_files == SelectSeq(Get(p, "icon_files", <<>>),
                                    LAMBDA f : f # Blank)
            text_lines == <<Get(p, "text_line_1", ""), Get(p, "text_line_2", ""),
                            Get(p, "text_line_3", "")>>
            offset == <<FloatOr(p, "icon_offset_x", R(0)),
                        FloatOr(p, "icon_offset_y", R(0))>>
            template_name == TemplateName(lower(color_v), size, orientation,
                                          template_type)
            a == CallArgs(size, orientation, upper(layout_mode_v), text_lines,
                          FloatOr(p, "icon_scale", R(1)),
                          FloatOr(p, "text_scale", R(1)))
        IN  IF template_name \notin dir
            THEN Raise("FileNotFoundError", table, lay)
            ELSE IF _get_sign_bounds(size, orientation).raised # "none"
            THEN Raise(_get_sign_bounds(size, orientation).raised, table, lay)
            ELSE ComposeDocument(template_name, icon_files,
                                 Get(p, "font", "arial_heavy"), offset,
                                 _calculate_layout(table, file, a), render)

template_types == <<"main", "dimensions", "peel_and_stick", "rear">>

\* What render_svg_to_bytes gives its caller: the PNG, or an exception (the
\* TimeoutError of Future.result(timeout=60) stands for all of them: the
\* facade handles every exception of the rasterizer alike).
RenderOutcomes == {"png", "TimeoutError"}

LogRecord(level, what, about) == [level |-> level, what |-> what, about |-> about]

\* One iteration of the loop of generate_all_images_for_product: the state of
\* the call after generate_product_image(product, template_type) ended as
\* `out`.  A variant lets FileNotFoundError leave the function.
AfterAttempt_Propagate(g, p, template_type, out) ==
    IF out.raised = "FileNotFoundError"
    THEN [g EXCEPT !.idx = Len(template_types) + 1,
                   !.raised = out.raised,
                   !.outcomes = Store(@, template_type, out.raised)]
    ELSE [g EXCEPT !.idx = @ + 1,
                   !.images = IF out.raised = "none"
                              THEN Store(@, template_type, [png_of |-> out.doc])
                              ELSE @,
                   !.outcomes = Store(@, template_type, out.raised)]

AfterAttempt(g, p, template_type, out) ==
    IF out.raised # "none" /\ "m_number" \notin DOMAIN p
    THEN \* the handler's product['m_number'] raises KeyError
         [g EXCEPT !.idx = Len(template_types) + 1,
                   !.raised = "KeyError",
                   !.outcomes = Store(@, template_type, out.raised)]
    ELSE [g EXCEPT !.idx = @ + 1,
                   !.images = IF out.raised = "none"
                              THEN Store(@, template_type, [png_of |-> out.doc])
                              ELSE @,
                   !.outcomes = Store(@, template_type, out.raised)]

\* The records the iteration logs: _load_icon's warnings, then the handler's
LoggedBy(p, template_type, out) ==
    [i \in 1..Len(out.warnings) |->
        LogRecord("warning", "Icon not found", out.warnings[i])]
    \o (IF out.raised = "none" \/ "m_number" \notin DOMAIN p THEN <<>>
        ELSE IF out.raised = "FileNotFoundError"
        THEN <<LogRecord("warning", "Template not found", template_type)>>
        ELSE <<LogRecord("error", "Error generating", template_type)>>)

\* generate_all_images_for_product entered: images = {}
NewGen ==
    [idx |-> 1, raised |-> "none", images |-> EmptyTable,
     outcomes |-> EmptyTable,   \* how each attempted kind ended
     submitted |-> EmptyTable]  \* the document of each kind sent to the rasterizer

\* What an iteration leaves behind once generate_product_image ended as `out`
EndAttempt(template_type, out) ==
    /\ gen' = IF "doc" \in DOMAIN out
              THEN [AfterAttempt(gen, product, template_type, out)
                       EXCEPT !.submitted = Store(@, template_type, out.doc)]
              ELSE AfterAttempt(gen, product, template_type, out)
    /\ log' = log \o LoggedBy(product, template_type, out)
    /\ LAYOUT_BOUNDS' = out.table
    /\ layout' = out.layout

\* An iteration of "for template_type in template_types"
TryTemplateType ==
    /\ gen.idx <= Len(template_types)
    /\ \E render \in RenderOutcomes :
          EndAttempt(template_types[gen.idx],
                     generate_product_image(product, template_types[gen.idx],
                         LAYOUT_BOUNDS, csvFile, assets, layout, render))
    /\ UNCHANGED <<csvFile, product, assets, call, renderVars, restVars>>

NoProduct == [m_number |-> ""]
NoCall == [op |-> "none"]
FacadeIdle ==
    /\ call = NoCall
    /\ product = NoProduct
    /\ assets = {}
    /\ gen = [NewGen EXCEPT !.idx = Len(template_types) + 1]
    /\ log = <<>>

MaxIcons == 2

IconNames ==
    { IconFile("stop", ".svg"), IconFile("arrow", ""),
      IconFile("gone", ".png"), IconFile("notes", ".txt"), Blank }

RECURSIVE SeqsUpTo(_, _)
SeqsUpTo(S, n) ==
    IF n = 0 THEN {<<>>}
    ELSE LET shorter == SeqsUpTo(S, n - 1)
         IN  shorter \cup { Append(q, x) : q \in shorter, x \in S }

ProductRow(size, orientation, layout_mode, icon_files, text_line_1) ==
    [m_number |-> "M1001", size |-> size, color |-> "silver",
     orientation |-> orientation, layout_mode |-> layout_mode,
     icon_files |-> icon_files,
     text_line_1 |-> text_line_1, text_line_2 |-> PyNone, text_line_3 |-> "",
     font |-> "arial_heavy", icon_scale |-> Num(R(1)), text_scale |-> Null,
     icon_offset_x |-> Num(R(0)), icon_offset_y |-> Null]

Products ==
    { ProductRow(so[1], so[2], "a", f, "STOP") :
        so \in { <<"SAVILLE", "landscape">>, <<"baby_jesus", "Portrait">>,
                 <<"mystery", "landscape">> },
        f \in SeqsUpTo(IconNames, MaxIcons) }

\* The template files that may exist for a product
TemplatesOf(p) ==
    { TemplateName(lower(p.color), lower(p.size), lower(p.orientation),
                   template_types[i]) : i \in 1..Len(template_types) }

FacadeFiles ==
    { File(<<Row("saville", "A", "icon", "10", "20", "40", "30"),
             Row("saville", "A", "text_1", "10", "60", "40", "10")>>),
      File(<<Row("saville", "A", "icon", "10", "20", "40", "30"),
             Row("saville", "A", "text_1", "10", "60", "", "10")>>) }

----------------------------------------------------------------------------
(* Single calls: generate_product_image, generate_master_svg_for_product, *)
(* the preview endpoint of app.py                                          *)

\* The template generate_master_svg_for_product opens: the master design
\* file, else the main template, else FileNotFoundError; with a variant that
\* knows no fallback.
MasterTemplate_NoFallback(color, size, orientation, dir) ==
    LET master == TemplateName(color, size, orientation, "master_design_file")
    IN  IF master \in dir THEN [raised |-> "none", name |-> master]
        ELSE [raised |-> "FileNotFoundError"]

MasterTemplate(color, size, orientation, dir) ==
    LET master == TemplateName(color, size, orientation, "master_design_file")
        main == TemplateName(color, size, orientation, "main")
    IN  IF master \in dir THEN [raised |-> "none", name |-> master]
        ELSE IF main \in dir THEN [raised |-> "none", name |-> main]
        ELSE [raised |-> "FileNotFoundError"]

\* The return of generate_master_svg_for_product: etree.tostring of the
\* composed document, no call of the rasterizer.
MasterBytes(out) ==
    IF "doc" \in DOMAIN out
    THEN [raised |-> "none", table |-> out.table, layout |-> out.layout,
          warnings |-> out.warnings, svg |-> out.doc]
    ELSE out

\* generate_master_svg_for_product: the statements of generate_product_image
\* with the master template and without the render.
generate_master_svg_for_product(p, table, file, dir, lay) ==
    LET size_v == Get(p, "size", "saville")
        color_v == Get(p, "color", "silver")
        orientation_v == Get(p, "orientation", "landscape")
        layout_mode_v == Get(p, "layout_mode", "A")
    IN  IF PyNone \in {size_v, color_v, orientation_v, layout_mode_v}
        THEN Raise("AttributeError", table, lay)
        ELSE
        LET size == lower(size_v)
            orientation == lower(orientation_v)
            icon_files == SelectSeq(Get(p, "icon_files", <<>>),
                                    LAMBDA f : f # Blank)
            text_lines == <<Get(p, "text_line_1", ""), Get(p, "text_line_2", ""),
                            Get(p, "text_line_3", "")>>
            offset == <<FloatOr(p, "icon_offset_x", R(0)),
                        FloatOr(p, "icon_offset_y", R(0))>>
            template == MasterTemplate(lower(color_v), size, orientation, dir)
            a == CallArgs(size, orientation, upper(layout_mode_v), text_lines,
                          FloatOr(p, "icon_scale", R(1)),
                          FloatOr(p, "text_scale", R(1)))
        IN  IF template.raised # "none"
            THEN Raise(template.raised, table, lay)
            ELSE IF _get_sign_bounds(size, orientation).raised # "none"
            THEN Raise(_get_sign_bounds(size, orientation).raised, table, lay)
            ELSE MasterBytes(
                    ComposeDocument(template.name, icon_files,
                                    Get(p, "font", "arial_heavy"), offset,
                                    _calculate_layout(table, file, a), "png"))

IconWarnings(out) ==
    [i \in 1..Len(out.warnings) |->
        LogRecord("warning", "Icon not found", out.warnings[i])]

\* The state a call of one of the two generators leaves behind
CallEnded(op, out) ==
    /\ call' = [op |-> op,
                out |-> [f \in DOMAIN out \ {"table", "layout"} |-> out[f]]]
    /\ log' = log \o IconWarnings(out)
    /\ LAYOUT_BOUNDS' = out.table
    /\ layout' = out.layout

GenerateProductImage ==
    /\ call = NoCall
    /\ \E render \in RenderOutcomes :
          CallEnded("generate_product_image",
                    generate_product_image(product, "main", LAYOUT_BOUNDS,
                                           csvFile, assets, layout, render))
    /\ UNCHANGED <<csvFile, product, assets, gen, renderVars, restVars>>

GenerateMasterSvg ==
    /\ call = NoCall
    /\ CallEnded("generate_master_svg_for_product",
                 generate_master_svg_for_product(product, LAYOUT_BOUNDS,
                                                 csvFile, assets, layout))
    /\ UNCHANGED <<csvFile, product, assets, gen, renderVars, restVars>>

\* Product.get(m_number): the row of the products table, or None
Product_get(m_number) ==
    IF product.m_number = m_number THEN product ELSE NoProduct

\* What preview_product answers once generate_product_image ended as `out`:
\* Response(png_bytes, mimetype='image/png'), or the placeholder SVG of the
\* "except Exception" handler; with a variant whose handler is for
\* FileNotFoundError only (Flask answers 500 for an unhandled exception).
PreviewResponse_OnlyMissingTemplate(m_number, out) ==
    IF out.raised = "none"
    THEN [status |-> 200, mimetype |-> "image/png", body |-> [png_of |-> out.doc]]
    ELSE IF out.raised = "FileNotFoundError"
    THEN [status |-> 200, mimetype |-> "image/svg+xml",
          body |-> [placeholder_for |-> m_number, error |-> out.raised]]
    ELSE [status |-> 500, mimetype |-> "text/html",
          body |-> [error |-> out.raised]]

PreviewResponse(m_number, out) ==
    IF out.raised = "none"
    THEN [status |-> 200, mimetype |-> "image/png", body |-> [png_of |-> out.doc]]
    ELSE [status |-> 200, mimetype |-> "image/svg+xml",
          body |-> [placeholder_for |-> m_number, error |-> out.raised]]

PreviewEnded(m_number, out) ==
    /\ call' = [op |-> "preview_product", m_number |-> m_number,
                raised |-> out.raised,
                response |-> PreviewResponse(m_number, out)]
    /\ log' = log \o IconWarnings(out)
    /\ LAYOUT_BOUNDS' = out.table
    /\ layout' = out.layout

\* GET /api/preview/<m_number>
preview_product(m_number, render) ==
    IF Product_get(m_number) = NoProduct
    THEN /\ call' = [op |-> "preview_product", m_number |-> m_number,
                     raised |-> "none",
                     response |-> [status |-> 404, mimetype |-> "text/html",
                                   body |-> "Not found"]]
         /\ UNCHANGED <<LAYOUT_BOUNDS, layout, log>>
    ELSE PreviewEnded(m_number,
                      generate_product_image(Product_get(m_number), "main",
                          LAYOUT_BOUNDS, csvFile, assets, layout, render))

MNumbers == {"M1001", "M9999"}

PreviewProduct ==
    /\ call = NoCall
    /\ \E m_number \in MNumbers, render \in RenderOutcomes :
          preview_product(m_number, render)
    /\ UNCHANGED <<csvFile, product, assets, gen, renderVars, restVars>>

\* Product records with each defaulted field present, missing or None
Missing == "<missing>"
MissingNum == [missing |-> TRUE]
TextFields == {"size", "color", "orientation"}
NumberFields == {"icon_scale", "text_scale", "icon_offset_x", "icon_offset_y"}

FromFields(f) ==
    [k \in (DOMAIN f \ (TextFields \cup NumberFields))
           \cup {k \in TextFields : f[k] # Missing}
           \cup {k \in NumberFields : f[k] # MissingNum} |-> f[k]]

ProductRecords ==
    { FromFields(
        [ProductRow(s, o, "A", <<IconFile("stop", ".svg"), IconFile("arrow", "")>>,
                    "STOP")
           EXCEPT !.color = c, !.icon_scale = is, !.text_scale = ts,
                  !.icon_offset_x = ox, !.icon_offset_y = oy]) :
        s \in {"SAVILLE", "baby_jesus", "mystery", Missing, PyNone},
        c \in {"Silver", Missing, PyNone},
        o \in {"Portrait", Missing, PyNone},
        is \in {Num(Rat(3, 2)), MissingNum, Null},
        ts \in {Num(R(2)), MissingNum, Null},
        ox \in {Num(R(10)), MissingNum, Null},
        oy \in {Num(R(0 - 5)), MissingNum, Null} }

\* The value a field of the record stands for (None and a missing key stand
\* for the documented default)
Effective(p, key, default) ==
    IF key \in DOMAIN p /\ p[key] # PyNone THEN lower(p[key]) ELSE default

MasterTemplatesOf(p) ==
    { TemplateName(Effective(p, "color", "silver"), Effective(p, "size", "saville"),
                   Effective(p, "orientation", "landscape"), k) :
        k \in {"main", "master_design_file"} }

----------------------------------------------------------------------------
(* The two injectors applied to drawn icons and target rectangles *)

IconSides == {0, 50, 100, 200, 300}
TargetSides == {R(40), Rat(469, 10)}
TargetOrigins == {R(0), Rat(4605, 100)}

\* A loaded icon: the parsed SVG root with its width and height attributes
\* (0 makes the code take scale 1 for that dimension), or the PNG data with
\* its pixel size
LoadedIcons ==
    { [type |-> "svg", path |-> IconFile("drawn", ".svg"), size |-> <<w, h>>] :
        w \in IconSides, h \in IconSides }
    \cup
    { [type |-> "png", path |-> IconFile("drawn", ".png"), size |-> <<w, h>>] :
        w \in IconSides \ {0}, h \in IconSides \ {0} }

PendingInjections ==
    { [op |-> "pending", icon |-> i, x |-> x, y |-> y, width |-> w, height |-> h] :
        i \in LoadedIcons, x \in TargetOrigins, y \in TargetOrigins,
        w \in TargetSides, h \in TargetSides }

InjectSvgIcon ==
    /\ call.op = "pending"
    /\ call.icon.type = "svg"
    /\ call' = [call EXCEPT !.op = "_inject_icon"] @@
               [node |-> _inject_icon(call.icon, call.x, call.y,
                                      call.width, call.height)]
    /\ UNCHANGED <<layoutVars, product, assets, gen, log, renderVars, restVars>>

InjectPngIcon ==
    /\ call.op = "pending"
    /\ call.icon.type = "png"
    /\ call' = [call EXCEPT !.op = "_inject_png_icon"] @@
               [node |-> _inject_png_icon(call.icon, call.x, call.y,
                                          call.width, call.height)]
    /\ UNCHANGED <<layoutVars, product, assets, gen, log, renderVars, restVars>>

----------------------------------------------------------------------------
(* Rasterizer: svg_renderer.py *)

NumCallers == 2       \* request threads calling into the module
MaxTasks == 3         \* submissions to the executor in one behaviour
MaxWait == 90         \* no wait is followed beyond this many seconds

max_workers == 1      \* ThreadPoolExecutor(max_workers=1)
RenderTimeout == 60   \* .result(timeout=60)
ShutdownTimeout == 10 \* .result(timeout=10)
NoTimeout == 0 - 1    \* .result(timeout=None)

Callers == 1..NumCallers
Workers == 1..max_workers
CallerThread(c) == [thread |-> "caller", id |-> c]
WorkerThread(w) == [thread |-> "playwright", id |-> w]

RenderApis == {"render_svg_to_bytes", "render_svg_to_png", "render_svg_file_to_png"}

\* The function each entry point submits to the executor
SubmittedFn(api) ==
    CASE api = "render_svg_to_bytes" -> "_render_svg_impl"
      [] api = "render_svg_to_png" -> "_render_svg_impl"
      [] api = "render_svg_file_to_png" -> "_render_svg_file_impl"
      [] api = "close_browser" -> "_shutdown"

\* The timeout each entry point passes to Future.result, with a variant that
\* waits without one.
ResultTimeout_None(api) == NoTimeout

ResultTimeout(api) ==
    IF api = "close_browser" THEN ShutdownTimeout ELSE RenderTimeout

\* The place in the work queue of the item a free worker takes next
\* (queue.SimpleQueue.get: the oldest), with a variant that takes the newest.
NextWorkItem_Newest(q) == Len(q)

NextWorkItem(q) == 1

IdleCaller == [pc |-> "idle"]

EngineDown ==
    [_browser |-> "None", _playwright_instance |-> "None", _initialized |-> FALSE,
     starts |-> 0,      \* times sync_playwright().start() + chromium.launch() ran
     shutdowns |-> 0]   \* times _shutdown ran

RenderIdle ==
    /\ caller = [c \in Callers |-> IdleCaller]
    /\ futures = <<>>
    /\ workQueue = <<>>
    /\ worker = [w \in Workers |-> 0]
    /\ engine = EngineDown
    /\ touched = {}

\* _executor.submit(fn, ...) followed by the start of .result(timeout=...):
\* the future is created PENDING and queued, the caller starts to wait.
Submit(c, api) ==
    /\ caller[c].pc = "idle"
    /\ Len(futures) < MaxTasks
    /\ futures' = Append(futures, [fn |-> SubmittedFn(api), state |-> "PENDING",
                                   result |-> "none",
                                   wait |-> "waiting",   \* how the caller's wait ended
                                   abandoned |-> "no"])  \* its state when the wait timed out
    /\ workQueue' = Append(workQueue, Len(futures) + 1)
    /\ caller' = [caller EXCEPT ![c] =
                    [pc |-> "waiting", api |-> api, fut |-> Len(futures) + 1,
                     waited |-> 0, timeout |-> ResultTimeout(api)]]
    /\ UNCHANGED <<worker, engine, touched, layoutVars, facadeVars, restVars>>

render_svg_to_bytes(c) == Submit(c, "render_svg_to_bytes")
render_svg_to_png(c) == Submit(c, "render_svg_to_png")
render_svg_file_to_png(c) == Submit(c, "render_svg_file_to_png")

\* _shutdown: closes the browser, stops Playwright, clears the handles
ShutdownEngine(e) ==
    [e EXCEPT !._browser = "None", !._playwright_instance = "None",
              !._initialized = FALSE, !.shutdowns = @ + 1]

\* A variant of close_browser that runs _shutdown on the calling thread
close_browser_Inline(c) ==
    /\ caller[c].pc = "idle"
    /\ Len(futures) < MaxTasks
    /\ engine' = ShutdownEngine(engine)
    /\ touched' = touched \cup {CallerThread(c)}
    /\ futures' = Append(futures, [fn |-> "_shutdown", state |-> "FINISHED",
                                   result |-> "ok", wait |-> "returned",
                                   abandoned |-> "no"])
    /\ UNCHANGED <<caller, workQueue, worker, layoutVars, facadeVars, restVars>>

close_browser(c) == Submit(c, "close_browser")

\* The executor's worker thread takes a work item and marks it running.
WorkerTake(w) ==
    /\ worker[w] = 0
    /\ workQueue # <<>>
    /\ LET k == NextWorkItem(workQueue)
           f == workQueue[k]
       IN  /\ worker' = [worker EXCEPT ![w] = f]
           /\ workQueue' = RemoveAt(workQueue, k)
           /\ futures' = [futures EXCEPT ![f].state = "RUNNING"]
    /\ UNCHANGED <<caller, engine, touched, layoutVars, facadeVars, restVars>>

\* _ensure_browser: starts Playwright and launches Chromium unless
\* _initialized is set
_ensure_browser(e) ==
    IF ~e._initialized
    THEN [e EXCEPT !._playwright_instance = "playwright", !._browser = "browser",
                   !._initialized = TRUE, !.starts = @ + 1]
    ELSE e

\* The work item runs to its end on the worker thread: _render_svg_impl and
\* _render_svg_file_impl ensure the browser and render (the PNG, or the
\* exception of a render step after the finally block), _shutdown tears the
\* engine down.  The future is finished with the result.
WorkerRun(w) ==
    /\ worker[w] # 0
    /\ LET f == worker[w]
       IN  IF futures[f].fn = "_shutdown"
           THEN /\ engine' = ShutdownEngine(engine)
                /\ futures' = [futures EXCEPT ![f].state = "FINISHED",
                                              ![f].result = "ok"]
           ELSE /\ engine' = _ensure_browser(engine)
                /\ \E r \in {"png", "PlaywrightError"} :
                      futures' = [futures EXCEPT ![f].state = "FINISHED",
                                                 ![f].result = r]
    /\ touched' = touched \cup {WorkerThread(w)}
    /\ worker' = [worker EXCEPT ![w] = 0]
    /\ UNCHANGED <<caller, workQueue, layoutVars, facadeVars, restVars>>

\* Future.result returns (or re-raises) as soon as the future is finished.
Return(c) ==
    /\ caller[c].pc = "waiting"
    /\ futures[caller[c].fut].state = "FINISHED"
    /\ caller' = [caller EXCEPT ![c] = IdleCaller]
    /\ futures' = [futures EXCEPT ![caller[c].fut].wait = "returned"]
    /\ UNCHANGED <<workQueue, worker, engine, touched, layoutVars, facadeVars, restVars>>

\* A variant of the timeout below in which the caller cancels a future that
\* has not started (Future.cancel) before it leaves
Timeout_Cancel(c) ==
    /\ caller[c].pc = "waiting"
    /\ futures[caller[c].fut].state # "FINISHED"
    /\ caller[c].timeout # NoTimeout
    /\ caller[c].waited >= caller[c].timeout
    /\ caller' = [caller EXCEPT ![c] = IdleCaller]
    /\ futures' = [futures EXCEPT ![caller[c].fut].wait = "TimeoutError",
                                  ![caller[c].fut].abandoned = futures[caller[c].fut].state,
                                  ![caller[c].fut].state =
                                      IF @ = "PENDING" THEN "CANCELLED" ELSE @]
    /\ workQueue' = SelectSeq(workQueue, LAMBDA k : k # caller[c].fut)
    /\ UNCHANGED <<worker, engine, touched, layoutVars, facadeVars, restVars>>

\* Future.result raises TimeoutError when the timeout has passed and the
\* future is not finished; the work item stays where it is.
Timeout(c) ==
    /\ caller[c].pc = "waiting"
    /\ futures[caller[c].fut].state # "FINISHED"
    /\ caller[c].timeout # NoTimeout
    /\ caller[c].waited >= caller[c].timeout
    /\ caller' = [caller EXCEPT ![c] = IdleCaller]
    /\ futures' = [futures EXCEPT ![caller[c].fut].wait = "TimeoutError",
                                  ![caller[c].fut].abandoned = futures[caller[c].fut].state]
    /\ UNCHANGED <<workQueue, worker, engine, touched, layoutVars, facadeVars, restVars>>

Waiting == { c \in Callers : caller[c].pc = "waiting" }

Min(S) == CHOOSE x \in S : \A y \in S : x <= y

\* Time passes for the waiting callers, up to the nearest moment at which a
\* timeout ends a wait: a caller whose future is finished, or whose timeout
\* has passed, leaves its wait before more time passes.
Tick ==
    /\ Waiting # {}
    /\ \A c \in Waiting : futures[caller[c].fut].state # "FINISHED"
    /\ LET d == Min({ caller[c].timeout - caller[c].waited :
                             c \in { x \in Waiting : caller[x].timeout # NoTimeout } }
                    \cup { MaxWait - caller[c].waited : c \in Waiting })
       IN  /\ d > 0
           /\ caller' = [c \in Callers |->
                           IF c \in Waiting
                           THEN [caller[c] EXCEPT !.waited = @ + d]
                           ELSE caller[c]]
    /\ UNCHANGED <<futures, workQueue, worker, engine, touched, layoutVars, facadeVars, restVars>>

----------------------------------------------------------------------------
(* _calculate_layout on several request threads, statement by statement *)

NumThreads == 2       \* request threads, one call each
MaxSaves == 2         \* saves of the file by the editor in one behaviour

Threads == 1..NumThreads

\* Two versions of the file with the same keys and different boxes
FileVersions ==
    { File(<<Row("saville", "A", "icon", "10", "20", "40", "30"),
             Row("saville", "A", "text_1", "10", "60", "40", "10")>>),
      File(<<Row("saville", "A", "icon", "12.5", "20", "60", "30"),
             Row("saville", "A", "text_1", "10", "60", "40", "30")>>) }

ThreadCalls ==
    { CallArgs("saville", "landscape", m, <<"STOP", "", "">>, R(1), R(1)) :
        m \in {"A", "B"} }

IdleThread == [pc |-> "idle"]

ThreadsIdle ==
    /\ req = [t \in Threads |-> IdleThread]
    /\ saves = <<>>

\* The editor saves another version of the file.
SaveFile ==
    /\ Len(saves) <= MaxSaves
    /\ \E v \in FileVersions \ {csvFile} :
          /\ csvFile' = v
          /\ saves' = Append(saves, v)
    /\ UNCHANGED <<LAYOUT_BOUNDS, layout, req, facadeVars, renderVars, jobVars, pageVars, batchVars>>

\* The call starts: _load_layout_bounds tests csv_path.exists() and opens and
\* reads the file as it is now.
BeginLayout(t) ==
    /\ req[t].pc = "idle"
    /\ \E a \in ThreadCalls :
          req' = [req EXCEPT ![t] =
                    IF csvFile.exists /\ csvFile.rows # <<>>
                    THEN [pc |-> "load", args |-> a, rows |-> csvFile.rows, i |-> 1]
                    ELSE [pc |-> "icon", args |-> a]]
    /\ UNCHANGED <<layoutVars, saves, facadeVars, renderVars, jobVars, pageVars, batchVars>>

\* One turn of the for-loop of _load_layout_bounds: the row is converted and
\* stored in the module-level dict; a conversion that raises ends the call.
StoreRow(t) ==
    /\ req[t].pc = "load"
    /\ LET row == req[t].rows[req[t].i]
           fx == float(row.x)
           fy == float(row.y)
           fw == float(row.width)
           fh == float(row.height)
           bad == SelectSeq(<<fx, fy, fw, fh>>, LAMBDA f : f.raised # "none")
       IN  IF Len(bad) > 0
           THEN /\ req' = [req EXCEPT ![t] =
                             [pc |-> "done", args |-> req[t].args,
                              status |-> "raised", exc |-> bad[1].raised]]
                /\ UNCHANGED LAYOUT_BOUNDS
           ELSE /\ LAYOUT_BOUNDS' =
                      Store(LAYOUT_BOUNDS, KeyOf(row),
                            [x |-> fx.value, y |-> fy.value,
                             width |-> fw.value, height |-> fh.value])
                /\ req' = [req EXCEPT ![t] =
                             IF req[t].i < Len(req[t].rows)
                             THEN [req[t] EXCEPT !.i = @ + 1]
                             ELSE [pc |-> "icon", args |-> req[t].args]]
    /\ UNCHANGED <<csvFile, layout, saves, facadeVars, renderVars, jobVars, pageVars, batchVars>>

\* "if icon_key in LAYOUT_BOUNDS": the icon box is read from the dict, or the
\* geometric fallback computes the whole result from the bounds.
ReadIcon(t) ==
    /\ req[t].pc = "icon"
    /\ LET a == req[t].args
           icon_key == <<"main", a.size, a.orientation, a.layout_mode, "icon">>
       IN  req' = [req EXCEPT ![t] =
                     IF icon_key \in DOMAIN LAYOUT_BOUNDS
                     THEN [pc |-> "text", args |-> a,
                           icon |-> DataDrivenIcon(LAYOUT_BOUNDS[icon_key],
                                                   a.icon_scale),
                           idx |-> 1, text_elements |-> <<>>]
                     ELSE [pc |-> "done", args |-> a, status |-> "ok",
                           result |->
                             GeometricLayout(
                                 _get_sign_bounds(a.size, a.orientation).bounds,
                                 a.layout_mode, ActiveLines(a.text_lines),
                                 a.icon_scale, a.text_scale)]]
    /\ UNCHANGED <<layoutVars, saves, facadeVars, renderVars, jobVars, pageVars, batchVars>>

\* One turn of the loop over enumerate(active_lines): the text box of the
\* slot is read from the dict if it is there.
ReadText(t) ==
    /\ req[t].pc = "text"
    /\ req[t].idx <= Len(ActiveLines(req[t].args.text_lines))
    /\ LET a == req[t].args
           text_key == <<"main", a.size, a.orientation, a.layout_mode,
                         TextSlot(req[t].idx)>>
           line == ActiveLines(a.text_lines)[req[t].idx]
       IN  req' = [req EXCEPT ![t].idx = @ + 1,
                              ![t].text_elements =
                                 IF text_key \in DOMAIN LAYOUT_BOUNDS
                                 THEN Append(@, DataDrivenTextElement(
                                                   LAYOUT_BOUNDS[text_key], line,
                                                   a.text_scale))
                                 ELSE @]
    /\ UNCHANGED <<layoutVars, saves, facadeVars, renderVars, jobVars, pageVars, batchVars>>

\* The return of the data-driven branch
LayoutReturn(t) ==
    /\ req[t].pc = "text"
    /\ req[t].idx > Len(ActiveLines(req[t].args.text_lines))
    /\ req' = [req EXCEPT ![t] =
                 [pc |-> "done", args |-> req[t].args, status |-> "ok",
                  result |-> LayoutResult(req[t].icon.icon_x, req[t].icon.icon_y,
                                          req[t].icon.icon_width,
                                          req[t].icon.icon_height,
                                          req[t].text_elements, "data")]]
    /\ UNCHANGED <<layoutVars, saves, facadeVars, renderVars, jobVars, pageVars, batchVars>>

----------------------------------------------------------------------------
(* Background jobs: jobs.py *)

NumSubmitters == 2    \* request threads calling submit_job
MaxJobs == 2          \* calls of submit_job in one behaviour

_num_workers == 2     \* _num_workers = 2

Submitters == 1..NumSubmitters

\* datetime values: None, or a time of the clock
Never == <<>>
At(t) == <<t>>

\* uuid.uuid4() values (no value is returned twice) and str(...)[:8] of each
Uuids == {"3f2a91c4-7b1e", "3f2a91c4-c05d", "9d04e7b1-22aa"}
First8 ==
    ("3f2a91c4-7b1e" :> "3f2a91c4") @@ ("3f2a91c4-c05d" :> "3f2a91c4") @@
    ("9d04e7b1-22aa" :> "9d04e7b1")

\* Job(id=job_id, name=name) with the defaults of the dataclass; uuid is the
\* value the id was cut from.
Job(id, name, uuid) ==
    [id |-> id, name |-> name, status |-> "PENDING", progress |-> 0,
     total |-> 0, message |-> "", result |-> PyNone, error |-> PyNone,
     created_at |-> At(now), started_at |-> Never, completed_at |-> Never,
     uuid |-> uuid]

\* The job functions submitted: each sets job.total and job.progress and then
\* returns its result or raises.
JobFuncs == {"generate_images_job", "returns_early", "raises"}

IdleSubmitter == [pc |-> "idle"]
NotCleared == [op |-> "none"]

JobsIdle ==
    /\ jobHeap = <<>>
    /\ _jobs = <<>>
    /\ _job_queue = <<>>
    /\ _workers_started = FALSE
    /\ jobThread = <<>>
    /\ submitter = [s \in Submitters |-> IdleSubmitter]
    /\ runs = <<>>
    /\ now = 0
    /\ cleared = NotCleared

\* submit_job is called; start_workers() tests _workers_started.
SubmitJob(s) ==
    /\ submitter[s].pc = "idle"
    /\ Len(jobHeap)
         + Cardinality({ x \in Submitters :
                           submitter[x].pc \in {"start_workers", "create"} })
         < MaxJobs
    /\ \E f \in JobFuncs :
          submitter' = [submitter EXCEPT ![s] =
                          [pc |-> IF _workers_started THEN "create"
                                  ELSE "start_workers",
                           func |-> f]]
    /\ UNCHANGED <<jobHeap, _jobs, _job_queue, _workers_started, jobThread,
                   runs, now, cleared>>
    /\ UNCHANGED <<layoutVars, facadeVars, renderVars, threadVars, pageVars, batchVars>>

\* start_workers after the test: the threads are started, the flag is set.
start_workers(s) ==
    /\ submitter[s].pc = "start_workers"
    /\ jobThread' = jobThread \o [i \in 1.._num_workers |-> [pc |-> "get"]]
    /\ _workers_started' = TRUE
    /\ submitter' = [submitter EXCEPT ![s].pc = "create"]
    /\ UNCHANGED <<jobHeap, _jobs, _job_queue, runs, now, cleared>>
    /\ UNCHANGED <<layoutVars, facadeVars, renderVars, threadVars, pageVars, batchVars>>

\* job_id = str(uuid.uuid4())[:8]; job = Job(...); _jobs[job_id] = job
RegisterJob(s) ==
    /\ submitter[s].pc = "create"
    /\ \E u \in Uuids \ { jobHeap[k].uuid : k \in 1..Len(jobHeap) } :
          LET job_id == First8[u]
          IN  /\ jobHeap' = Append(jobHeap, Job(job_id, "job", u))
              /\ _jobs' = [k \in DOMAIN _jobs \cup {job_id} |->
                             IF k = job_id THEN Len(jobHeap) + 1 ELSE _jobs[k]]
              /\ submitter' = [submitter EXCEPT ![s] =
                                 [pc |-> "put", func |-> submitter[s].func,
                                  job_id |-> job_id, sub |-> Len(jobHeap) + 1]]
    /\ UNCHANGED <<_job_queue, _workers_started, jobThread, runs, now, cleared>>
    /\ UNCHANGED <<layoutVars, facadeVars, renderVars, threadVars, pageVars, batchVars>>

\* _job_queue.put((job_id, func, args, kwargs)); return job_id
PutJob(s) ==
    /\ submitter[s].pc = "put"
    /\ _job_queue' = Append(_job_queue,
                            [job_id |-> submitter[s].job_id,
                             func |-> submitter[s].func,
                             sub |-> submitter[s].sub])  \* the call it comes from
    /\ submitter' = [submitter EXCEPT ![s] = IdleSubmitter]
    /\ UNCHANGED <<jobHeap, _jobs, _workers_started, jobThread, runs, now, cleared>>
    /\ UNCHANGED <<layoutVars, facadeVars, renderVars, threadVars, pageVars, batchVars>>

JobWorkers == 1..Len(jobThread)

\* job_id, func, args, kwargs = _job_queue.get()
Dequeue(w) ==
    /\ jobThread[w].pc = "get"
    /\ _job_queue # <<>>
    /\ jobThread' = [jobThread EXCEPT ![w] =
                       [pc |-> "lookup", job_id |-> Head(_job_queue).job_id,
                        func |-> Head(_job_queue).func,
                        sub |-> Head(_job_queue).sub]]
    /\ _job_queue' = Tail(_job_queue)
    /\ UNCHANGED <<jobHeap, _jobs, _workers_started, submitter, runs, now, cleared>>
    /\ UNCHANGED <<layoutVars, facadeVars, renderVars, threadVars, pageVars, batchVars>>

\* job = _jobs.get(job_id); if not job: continue
LookupJob(w) ==
    /\ jobThread[w].pc = "lookup"
    /\ jobThread' = [jobThread EXCEPT ![w] =
                       IF jobThread[w].job_id \in DOMAIN _jobs
                       THEN [pc |-> "set_running", func |-> jobThread[w].func,
                             sub |-> jobThread[w].sub,
                             job |-> _jobs[jobThread[w].job_id]]
                       ELSE [pc |-> "get"]]
    /\ UNCHANGED <<jobHeap, _jobs, _job_queue, _workers_started, submitter,
                   runs, now, cleared>>
    /\ UNCHANGED <<layoutVars, facadeVars, renderVars, threadVars, pageVars, batchVars>>

\* One statement of _worker that assigns to the Job object
WorkerStep(w, pc, next, heap) ==
    /\ jobThread[w].pc = pc
    /\ jobHeap' = heap
    /\ jobThread' = [jobThread EXCEPT ![w].pc = next]

\* job.status = JobStatus.RUNNING
SetRunning(w) ==
    /\ WorkerStep(w, "set_running", "set_started",
                  [jobHeap EXCEPT ![jobThread[w].job].status = "RUNNING"])
    /\ UNCHANGED <<_jobs, _job_queue, _workers_started, submitter, runs, now, cleared>>
    /\ UNCHANGED <<layoutVars, facadeVars, renderVars, threadVars, pageVars, batchVars>>

\* job.started_at = datetime.now()
SetStartedAt(w) ==
    /\ WorkerStep(w, "set_started", "call",
                  [jobHeap EXCEPT ![jobThread[w].job].started_at = At(now)])
    /\ UNCHANGED <<_jobs, _job_queue, _workers_started, submitter, runs, now, cleared>>
    /\ UNCHANGED <<layoutVars, facadeVars, renderVars, threadVars, pageVars, batchVars>>

\* result = func(job, *args, **kwargs): the function sets job.total and
\* job.progress and returns, or raises.
CallFunc(w) ==
    /\ jobThread[w].pc = "call"
    /\ LET j == jobThread[w].job
           f == jobThread[w].func
       IN  /\ jobHeap' = [jobHeap EXCEPT
                            ![j].total = 2,
                            ![j].progress = IF f = "generate_images_job" THEN 2 ELSE 1]
           /\ jobThread' = [jobThread EXCEPT ![w] =
                              IF f = "raises"
                              THEN [jobThread[w] EXCEPT !.pc = "set_failed"] @@
                                   [exc |-> "RuntimeError"]
                              ELSE [jobThread[w] EXCEPT !.pc = "set_result"] @@
                                   [result |-> "<result>"]]
           /\ runs' = Append(runs, [sub |-> jobThread[w].sub, worker |-> w,
                                    job |-> j])
    /\ UNCHANGED <<_jobs, _job_queue, _workers_started, submitter, now, cleared>>
    /\ UNCHANGED <<layoutVars, facadeVars, renderVars, threadVars, pageVars, batchVars>>

\* job.result = result
SetResult(w) ==
    /\ WorkerStep(w, "set_result", "set_completed",
                  [jobHeap EXCEPT ![jobThread[w].job].result = jobThread[w].result])
    /\ UNCHANGED <<_jobs, _job_queue, _workers_started, submitter, runs, now, cleared>>
    /\ UNCHANGED <<layoutVars, facadeVars, renderVars, threadVars, pageVars, batchVars>>

\* job.status = JobStatus.COMPLETED
SetCompleted(w) ==
    /\ WorkerStep(w, "set_completed", "set_progress",
                  [jobHeap EXCEPT ![jobThread[w].job].status = "COMPLETED"])
    /\ UNCHANGED <<_jobs, _job_queue, _workers_started, submitter, runs, now, cleared>>
    /\ UNCHANGED <<layoutVars, facadeVars, renderVars, threadVars, pageVars, batchVars>>

\* job.progress = job.total
SetProgress(w) ==
    /\ WorkerStep(w, "set_progress", "finally",
                  [jobHeap EXCEPT ![jobThread[w].job].progress =
                                     jobHeap[jobThread[w].job].total])
    /\ UNCHANGED <<_jobs, _job_queue, _workers_started, submitter, runs, now, cleared>>
    /\ UNCHANGED <<layoutVars, facadeVars, renderVars, threadVars, pageVars, batchVars>>

\* except Exception: job.status = JobStatus.FAILED
SetFailed(w) ==
    /\ WorkerStep(w, "set_failed", "set_error",
                  [jobHeap EXCEPT ![jobThread[w].job].status = "FAILED"])
    /\ UNCHANGED <<_jobs, _job_queue, _workers_started, submitter, runs, now, cleared>>
    /\ UNCHANGED <<layoutVars, facadeVars, renderVars, threadVars, pageVars, batchVars>>

\* job.error = f"{type(e).__name__}: {str(e)}\n{traceback.format_exc()}"
SetError(w) ==
    /\ WorkerStep(w, "set_error", "finally",
                  [jobHeap EXCEPT ![jobThread[w].job].error = jobThread[w].exc])
    /\ UNCHANGED <<_jobs, _job_queue, _workers_started, submitter, runs, now, cleared>>
    /\ UNCHANGED <<layoutVars, facadeVars, renderVars, threadVars, pageVars, batchVars>>

\* finally: job.completed_at = datetime.now(); _job_queue.task_done(); the
\* loop goes back to _job_queue.get().
Finally(w) ==
    /\ jobThread[w].pc = "finally"
    /\ jobHeap' = [jobHeap EXCEPT ![jobThread[w].job].completed_at = At(now)]
    /\ jobThread' = [jobThread EXCEPT ![w] = [pc |-> "get"]]
    /\ UNCHANGED <<_jobs, _job_queue, _workers_started, submitter, runs, now, cleared>>
    /\ UNCHANGED <<layoutVars, facadeVars, renderVars, threadVars, pageVars, batchVars>>

\* (now - job.completed_at).seconds > 3600
OneHour == 3600
\* timedelta.seconds is the seconds field of the normalised (days, seconds,
\* microseconds) triple: the whole seconds of the difference within its day.
SecondsPerDay == 86400

timedelta(a, b) == [days |-> (a - b) \div SecondsPerDay, seconds |-> (a - b) % SecondsPerDay]

to_remove(t) ==
    { job_id \in DOMAIN _jobs :
        /\ jobHeap[_jobs[job_id]].status \in {"COMPLETED", "FAILED"}
        /\ jobHeap[_jobs[job_id]].completed_at # Never
        /\ timedelta(t, jobHeap[_jobs[job_id]].completed_at[1]).seconds > OneHour }

\* clear_completed_jobs(): collect the ids to remove, then delete them.
clear_completed_jobs ==
    /\ cleared = NotCleared
    /\ _jobs' = [job_id \in DOMAIN _jobs \ to_remove(now) |-> _jobs[job_id]]
    /\ cleared' = [op |-> "clear_completed_jobs", before |-> _jobs]
    /\ UNCHANGED <<jobHeap, _job_queue, _workers_started, jobThread, submitter, runs, now>>
    /\ UNCHANGED <<layoutVars, facadeVars, renderVars, threadVars, pageVars, batchVars>>

\* The stores clear_completed_jobs is called on: two jobs, each in any status,
\* finished at second 0 or 600 or not finished, and the clock at the call.
StoredIds == {"3f2a91c4", "9d04e7b1"}
FinishTimes == {0, 600}
ClockTimes == {600, 3600, 3601, 4201, 7200, 86399, 86400, 87000, 90001, 176401}

StoredJob(id, status, completed_at) ==
    [Job(id, "job", id) EXCEPT !.status = status, !.completed_at = completed_at,
                               !.created_at = At(0)]

----------------------------------------------------------------------------
(* The render functions of svg_renderer.py, statement by statement *)

MaxRenders == 3       \* calls of the render functions in one behaviour

RenderFunctions == {"_render_svg_impl", "_render_svg_file_impl"}

IdleImpl == [pc |-> "idle", calls |-> 0, ended |-> "none"]

PagesIdle ==
    /\ impl = IdleImpl
    /\ contexts = {}
    /\ pages = {}
    /\ tempFiles = {}

\* An exception outside the try statement leaves the function at once.
Propagate == [pc |-> "idle", calls |-> impl.calls, ended |-> "raised"]

\* The function ends after its finally block: with the PNG bytes, or with the
\* exception of the try block.
EndOfCall ==
    [pc |-> "idle", calls |-> impl.calls,
     ended |-> IF impl.exc THEN "raised" ELSE "returned"]

ImplAt(pc) == [impl EXCEPT !.pc = pc]

\* The executor thread starts a render function; browser = _ensure_browser()
RenderCall(fn) ==
    /\ impl.pc = "idle"
    /\ impl.calls < MaxRenders
    /\ impl' = [pc |-> "new_context", fn |-> fn, id |-> impl.calls + 1,
                calls |-> impl.calls + 1, exc |-> FALSE, ended |-> "none"]
    /\ UNCHANGED <<contexts, pages, tempFiles>>
    /\ UNCHANGED <<layoutVars, facadeVars, renderVars, threadVars, jobVars, batchVars>>

\* context = browser.new_context(device_scale_factor=scale)
new_context(ok) ==
    /\ impl.pc = "new_context"
    /\ IF ok
       THEN /\ contexts' = contexts \cup {impl.id}
            /\ impl' = ImplAt("new_page")
       ELSE /\ contexts' = contexts
            /\ impl' = Propagate
    /\ UNCHANGED <<pages, tempFiles>>
    /\ UNCHANGED <<layoutVars, facadeVars, renderVars, threadVars, jobVars, batchVars>>

\* page = context.new_page()
new_page(ok) ==
    /\ impl.pc = "new_page"
    /\ IF ok
       THEN /\ pages' = pages \cup {impl.id}
            /\ impl' = ImplAt(IF impl.fn = "_render_svg_impl"
                              THEN "NamedTemporaryFile" ELSE "goto")
       ELSE /\ pages' = pages
            /\ impl' = Propagate
    /\ UNCHANGED <<contexts, tempFiles>>
    /\ UNCHANGED <<layoutVars, facadeVars, renderVars, threadVars, jobVars, batchVars>>

\* with tempfile.NamedTemporaryFile(mode='w', suffix='.svg', delete=False, ...)
NamedTemporaryFile(ok) ==
    /\ impl.pc = "NamedTemporaryFile"
    /\ IF ok
       THEN /\ tempFiles' = tempFiles \cup {impl.id}
            /\ impl' = ImplAt("write")
       ELSE /\ tempFiles' = tempFiles
            /\ impl' = Propagate
    /\ UNCHANGED <<contexts, pages>>
    /\ UNCHANGED <<layoutVars, facadeVars, renderVars, threadVars, jobVars, batchVars>>

\* f.write(svg_content); temp_svg = Path(f.name); the with block closes the
\* file and, with delete=False, leaves it on disk.
write(ok) ==
    /\ impl.pc = "write"
    /\ impl' = IF ok THEN ImplAt("goto") ELSE Propagate
    /\ UNCHANGED <<contexts, pages, tempFiles>>
    /\ UNCHANGED <<layoutVars, facadeVars, renderVars, threadVars, jobVars, batchVars>>

\* try: page.goto(...)
goto(ok) ==
    /\ impl.pc = "goto"
    /\ impl' = IF ok THEN ImplAt("screenshot")
                     ELSE [impl EXCEPT !.pc = "page_close", !.exc = TRUE]
    /\ UNCHANGED <<contexts, pages, tempFiles>>
    /\ UNCHANGED <<layoutVars, facadeVars, renderVars, threadVars, jobVars, batchVars>>

\* png_bytes = page.screenshot(...) or page.locator('svg').screenshot(...)
screenshot(ok) ==
    /\ impl.pc = "screenshot"
    /\ impl' = [impl EXCEPT !.pc = "page_close", !.exc = ~ok]
    /\ UNCHANGED <<contexts, pages, tempFiles>>
    /\ UNCHANGED <<layoutVars, facadeVars, renderVars, threadVars, jobVars, batchVars>>

\* finally: page.close(); a close that raises leaves the page as it is and
\* ends the finally block.
page_close(ok) ==
    /\ impl.pc = "page_close"
    /\ IF ok
       THEN /\ pages' = pages \ {impl.id}
            /\ impl' = ImplAt("context_close")
       ELSE /\ pages' = pages
            /\ impl' = Propagate
    /\ UNCHANGED <<contexts, tempFiles>>
    /\ UNCHANGED <<layoutVars, facadeVars, renderVars, threadVars, jobVars, batchVars>>

\* context.close(); the last statement of _render_svg_file_impl's finally
context_close(ok) ==
    /\ impl.pc = "context_close"
    /\ IF ok
       THEN /\ contexts' = contexts \ {impl.id}
            /\ impl' = IF impl.fn = "_render_svg_impl" THEN ImplAt("unlink")
                                                       ELSE EndOfCall
       ELSE /\ contexts' = contexts
            /\ impl' = Propagate
    /\ UNCHANGED <<pages, tempFiles>>
    /\ UNCHANGED <<layoutVars, facadeVars, renderVars, threadVars, jobVars, batchVars>>

\* temp_svg.unlink(missing_ok=True); return png_bytes
unlink(ok) ==
    /\ impl.pc = "unlink"
    /\ IF ok
       THEN /\ tempFiles' = tempFiles \ {impl.id}
            /\ impl' = EndOfCall
       ELSE /\ tempFiles' = tempFiles
            /\ impl' = Propagate
    /\ UNCHANGED <<contexts, pages>>
    /\ UNCHANGED <<layoutVars, facadeVars, renderVars, threadVars, jobVars, batchVars>>

----------------------------------------------------------------------------
(* generate_images_job of image_generator.py, statement by statement *)

MaxProducts == 3      \* products handed to one generate_images_job call

\* m_number is UNIQUE NOT NULL in the products table the list is read from.
BatchMNumbers == {"M1001", "M1002", "M1003"}
ImageKinds == {"main", "dimensions"}

\* What processing one product does: generate_all_images_for_product returns
\* images or nothing or raises, and an upload may raise.
ProductCases ==
    { [images |-> ImageKinds, raises |-> "none"],
      [images |-> {}, raises |-> "none"],
      [images |-> {}, raises |-> "generate_all_images_for_product"],
      [images |-> ImageKinds, raises |-> "upload_png_and_jpeg"] }

ProductLists ==
    { ps \in UNION { [1..n -> [m_number : BatchMNumbers, does : ProductCases]] : n \in 0..MaxProducts } :
        \A i, j \in 1..Len(ps) : i # j => ps[i].m_number # ps[j].m_number }

Put(d, k, v) == [x \in DOMAIN d \cup {k} |-> IF x = k THEN v ELSE d[x]]

\* The try statement of the loop body applied to one product
FailedEntry(p) == [success |-> FALSE, error |-> p.does.raises]

ProcessProduct_DropsFailed(results, p, upload_to_r2) ==
    IF p.does.raises = "generate_all_images_for_product"
    THEN results
    ELSE IF upload_to_r2 /\ p.does.images # {}
         THEN IF p.does.raises = "upload_png_and_jpeg"
              THEN results
              ELSE Put(results, p.m_number, [success |-> TRUE, urls |-> p.does.images])
         ELSE Put(results, p.m_number,
                  [success |-> TRUE, images |-> Cardinality(p.does.images)])

ProcessProduct(results, p, upload_to_r2) ==
    IF p.does.raises = "generate_all_images_for_product"
    THEN Put(results, p.m_number, FailedEntry(p))
    ELSE IF upload_to_r2 /\ p.does.images # {}
         THEN IF p.does.raises = "upload_png_and_jpeg"
              THEN Put(results, p.m_number, FailedEntry(p))
              ELSE Put(results, p.m_number, [success |-> TRUE, urls |-> p.does.images])
         ELSE Put(results, p.m_number,
                  [success |-> TRUE, images |-> Cardinality(p.does.images)])

NoBatch == [pc |-> "none"]

BatchIdle == batch = NoBatch

\* A worker calls generate_images_job(job, products, upload_to_r2) on the job
\* it has just set RUNNING.
NewBatch(products, upload_to_r2) ==
    [pc |-> "entry", products |-> products, upload_to_r2 |-> upload_to_r2,
     job |-> [progress |-> 0, total |-> 0, message |-> ""],
     i |-> 0, results |-> <<>>]

\* job.total = len(products); results = {}
BatchEntry ==
    /\ batch.pc = "entry"
    /\ batch' = [batch EXCEPT !.pc = "for", !.job.total = Len(batch.products),
                              !.results = <<>>, !.i = 0]
    /\ UNCHANGED <<layoutVars, facadeVars, renderVars, threadVars, jobVars, pageVars>>

\* for i, product in enumerate(products): m_number = product["m_number"];
\* job.message = ...; job.progress = i
BatchFor ==
    /\ batch.pc = "for"
    /\ batch.i < Len(batch.products)
    /\ batch' = [batch EXCEPT !.pc = "try",
                              !.job.message = "Generating images for "
                                  \o batch.products[batch.i + 1].m_number \o "...",
                              !.job.progress = batch.i]
    /\ UNCHANGED <<layoutVars, facadeVars, renderVars, threadVars, jobVars, pageVars>>

\* try: ... results[m_number] = {...} except Exception as e: ...
BatchTry ==
    /\ batch.pc = "try"
    /\ batch' = [batch EXCEPT !.pc = "for", !.i = batch.i + 1,
                    !.results = ProcessProduct(batch.results,
                                               batch.products[batch.i + 1],
                                               batch.upload_to_r2)]
    /\ UNCHANGED <<layoutVars, facadeVars, renderVars, threadVars, jobVars, pageVars>>

\* job.progress = job.total; job.message = ...; return results
BatchReturn ==
    /\ batch.pc = "for"
    /\ batch.i = Len(batch.products)
    /\ batch' = [batch EXCEPT !.pc = "returned",
                              !.job.progress = batch.job.total,
                              !.job.message = "Completed"]
    /\ UNCHANGED <<layoutVars, facadeVars, renderVars, threadVars, jobVars, pageVars>>

----------------------------------------------------------------------------
(* What the other specifications leave untouched *)

RestIdle ==
    /\ ThreadsIdle
    /\ JobsIdle
    /\ PagesIdle
    /\ BatchIdle

----------------------------------------------------------------------------
(* Specifications *)

vars == <<layoutVars, facadeVars, renderVars, restVars>>

\* The layout data file edited while _calculate_layout is called
InitLayout ==
    /\ csvFile \in {NoFile, File(<<>>)}
    /\ LAYOUT_BOUNDS = EmptyTable
    /\ layout = NoLayout
    /\ FacadeIdle
    /\ RenderIdle
    /\ RestIdle

NextLayout ==
    \/ EditAddRow
    \/ EditRemoveRow
    \/ EditChangeRow
    \/ EditDeleteFile
    \/ EditCreateFile
    \/ LayoutCall

SpecLayout == InitLayout /\ [][NextLayout]_vars

\* Request threads calling _calculate_layout while the editor saves the file
InitThreads ==
    /\ csvFile \in FileVersions
    /\ LAYOUT_BOUNDS = EmptyTable
    /\ layout = NoLayout
    /\ FacadeIdle
    /\ RenderIdle
    /\ req = [t \in Threads |-> IdleThread]
    /\ saves = <<csvFile>>
    /\ JobsIdle
    /\ PagesIdle
    /\ BatchIdle

NextThreads ==
    \/ SaveFile
    \/ \E t \in Threads : BeginLayout(t)
    \/ \E t \in Threads : StoreRow(t)
    \/ \E t \in Threads : ReadIcon(t)
    \/ \E t \in Threads : ReadText(t)
    \/ \E t \in Threads : LayoutReturn(t)

SpecThreads == InitThreads /\ [][NextThreads]_vars

\* Request threads calling submit_job and the worker threads of jobs.py
InitJobs ==
    /\ csvFile = NoFile
    /\ LAYOUT_BOUNDS = EmptyTable
    /\ layout = NoLayout
    /\ FacadeIdle
    /\ RenderIdle
    /\ ThreadsIdle
    /\ JobsIdle
    /\ PagesIdle
    /\ BatchIdle

NextJobs ==
    \/ \E s \in Submitters : SubmitJob(s)
    \/ \E s \in Submitters : start_workers(s)
    \/ \E s \in Submitters : RegisterJob(s)
    \/ \E s \in Submitters : PutJob(s)
    \/ \E w \in JobWorkers : Dequeue(w)
    \/ \E w \in JobWorkers : LookupJob(w)
    \/ \E w \in JobWorkers : SetRunning(w)
    \/ \E w \in JobWorkers : SetStartedAt(w)
    \/ \E w \in JobWorkers : CallFunc(w)
    \/ \E w \in JobWorkers : SetResult(w)
    \/ \E w \in JobWorkers : SetCompleted(w)
    \/ \E w \in JobWorkers : SetProgress(w)
    \/ \E w \in JobWorkers : SetFailed(w)
    \/ \E w \in JobWorkers : SetError(w)
    \/ \E w \in JobWorkers : Finally(w)

SpecJobs == InitJobs /\ [][NextJobs]_vars

\* clear_completed_jobs called on a store of finished and unfinished jobs
InitClear ==
    /\ csvFile = NoFile
    /\ LAYOUT_BOUNDS = EmptyTable
    /\ layout = NoLayout
    /\ FacadeIdle
    /\ RenderIdle
    /\ ThreadsIdle
    /\ now \in ClockTimes
    /\ \E s1, s2 \in {"PENDING", "RUNNING", "COMPLETED", "FAILED"} :
       \E c1, c2 \in {Never} \cup { At(t) : t \in FinishTimes } :
          jobHeap = <<StoredJob("3f2a91c4", s1, c1), StoredJob("9d04e7b1", s2, c2)>>
    /\ _jobs = [job_id \in StoredIds |-> IF job_id = "3f2a91c4" THEN 1 ELSE 2]
    /\ _job_queue = <<>>
    /\ _workers_started = TRUE
    /\ jobThread = [w \in 1.._num_workers |-> [pc |-> "get"]]
    /\ submitter = [s \in Submitters |-> IdleSubmitter]
    /\ runs = <<>>
    /\ cleared = NotCleared
    /\ PagesIdle
    /\ BatchIdle

NextClear == clear_completed_jobs

SpecClear == InitClear /\ [][NextClear]_vars

\* The executor thread running render calls one after another, any step of
\* which may raise
InitPages ==
    /\ csvFile = NoFile
    /\ LAYOUT_BOUNDS = EmptyTable
    /\ layout = NoLayout
    /\ FacadeIdle
    /\ RenderIdle
    /\ ThreadsIdle
    /\ JobsIdle
    /\ PagesIdle
    /\ BatchIdle

NextPages ==
    \/ \E fn \in RenderFunctions : RenderCall(fn)
    \/ \E ok \in BOOLEAN : new_context(ok)
    \/ \E ok \in BOOLEAN : new_page(ok)
    \/ \E ok \in BOOLEAN : NamedTemporaryFile(ok)
    \/ \E ok \in BOOLEAN : write(ok)
    \/ \E ok \in BOOLEAN : goto(ok)
    \/ \E ok \in BOOLEAN : screenshot(ok)
    \/ \E ok \in BOOLEAN : page_close(ok)
    \/ \E ok \in BOOLEAN : context_close(ok)
    \/ \E ok \in BOOLEAN : unlink(ok)

SpecPages == InitPages /\ [][NextPages]_vars

\* One call of generate_images_job on a list of products
InitBatch ==
    /\ csvFile = NoFile
    /\ LAYOUT_BOUNDS = EmptyTable
    /\ layout = NoLayout
    /\ FacadeIdle
    /\ RenderIdle
    /\ ThreadsIdle
    /\ JobsIdle
    /\ PagesIdle
    /\ \E products \in ProductLists, upload_to_r2 \in BOOLEAN :
          batch = NewBatch(products, upload_to_r2)

NextBatch ==
    \/ BatchEntry
    \/ BatchFor
    \/ BatchTry
    \/ BatchReturn

SpecBatch == InitBatch /\ [][NextBatch]_vars

\* _calculate_layout applied to drawn arguments and file contents
InitCalc ==
    /\ csvFile \in CalcFiles
    /\ LAYOUT_BOUNDS = EmptyTable
    /\ \E a \in CalcCalls : layout = [status |-> "pending", args |-> a]
    /\ FacadeIdle
    /\ RenderIdle
    /\ RestIdle

NextCalc == CalcPending

SpecCalc == InitCalc /\ [][NextCalc]_vars

\* generate_all_images_for_product called for a drawn product, set of
\* template files and layout data file
InitFacade ==
    /\ product \in Products
    /\ assets \in SUBSET TemplatesOf(product)
    /\ csvFile \in FacadeFiles
    /\ LAYOUT_BOUNDS = EmptyTable
    /\ layout = NoLayout
    /\ gen = NewGen
    /\ log = <<>>
    /\ call = NoCall
    /\ RenderIdle
    /\ RestIdle

NextFacade == TryTemplateType

SpecFacade == InitFacade /\ [][NextFacade]_vars

\* One call of generate_product_image, generate_master_svg_for_product or
\* the preview endpoint for a drawn product record and set of template files
InitProduct ==
    /\ product \in ProductRecords
    /\ assets \in SUBSET MasterTemplatesOf(product)
    /\ csvFile \in FacadeFiles
    /\ LAYOUT_BOUNDS = EmptyTable
    /\ layout = NoLayout
    /\ gen = [NewGen EXCEPT !.idx = Len(template_types) + 1]
    /\ log = <<>>
    /\ call = NoCall
    /\ RenderIdle
    /\ RestIdle

NextProduct ==
    \/ GenerateProductImage
    \/ GenerateMasterSvg
    \/ PreviewProduct

SpecProduct == InitProduct /\ [][NextProduct]_vars

\* _inject_icon and _inject_png_icon applied to drawn arguments
InitInject ==
    /\ csvFile = NoFile
    /\ LAYOUT_BOUNDS = EmptyTable
    /\ layout = NoLayout
    /\ product = NoProduct
    /\ assets = {}
    /\ gen = [NewGen EXCEPT !.idx = Len(template_types) + 1]
    /\ log = <<>>
    /\ call \in PendingInjections
    /\ RenderIdle
    /\ RestIdle

NextInject ==
    \/ InjectSvgIcon
    \/ InjectPngIcon

SpecInject == InitInject /\ [][NextInject]_vars

\* Request threads calling the rasterizer and close_browser
InitRender ==
    /\ csvFile = NoFile
    /\ LAYOUT_BOUNDS = EmptyTable
    /\ layout = NoLayout
    /\ FacadeIdle
    /\ RenderIdle
    /\ RestIdle

NextRender ==
    \/ \E c \in Callers : render_svg_to_bytes(c)
    \/ \E c \in Callers : render_svg_to_png(c)
    \/ \E c \in Callers : render_svg_file_to_png(c)
    \/ \E c \in Callers : close_browser(c)
    \/ \E w \in Workers : WorkerTake(w)
    \/ \E w \in Workers : WorkerRun(w)
    \/ \E c \in Callers : Return(c)
    \/ \E c \in Callers : Timeout(c)
    \/ Tick

SpecRender == InitRender /\ [][NextRender]_vars

\* The same with the executor's worker thread running: it takes the next work
\* item whenever it is free and one is queued, and a work item it runs comes
\* to its end (result or exception).
SpecRenderFair ==
    /\ SpecRender
    /\ WF_vars(\E w \in Workers : WorkerTake(w))
    /\ WF_vars(\E w \in Workers : WorkerRun(w))

----------------------------------------------------------------------------
(* Claims about the layout bounds table and the layout calculator *)

NumericRow(row) ==
    \A c \in {row.x, row.y, row.width, row.height} : c \in DOMAIN FloatLiteral

AllNumeric(file) == \A i \in 1..Len(file.rows) : NumericRow(file.rows[i])

FileKeys(file) ==
    IF file.exists THEN { KeyOf(file.rows[i]) : i \in 1..Len(file.rows) } ELSE {}

\* The last row of the file written under key k
LastRow(file, k) ==
    LET is == { i \in 1..Len(file.rows) : KeyOf(file.rows[i]) = k }
    IN  file.rows[CHOOSE i \in is : \A j \in is : j <= i]

RowBox(row) ==
    [x |-> FloatLiteral[row.x], y |-> FloatLiteral[row.y],
     width |-> FloatLiteral[row.width], height |-> FloatLiteral[row.height]]

IconKey(a) == <<"main", a.size, a.orientation, a.layout_mode, "icon">>

\* C1: at every _calculate_layout call the table consulted equals exactly the
\* rows of the layout data file at that moment: an added or changed row is
\* seen with its new value, and a row removed from the file (or every row of
\* a deleted file) is absent, so the call takes the geometric path for it.
C1_TableEqualsFile ==
    (layout.status = "ok" /\ AllNumeric(csvFile)) =>
        /\ DOMAIN LAYOUT_BOUNDS = FileKeys(csvFile)
        /\ \A k \in FileKeys(csvFile) :
              LAYOUT_BOUNDS[k] = RowBox(LastRow(csvFile, k))
        /\ IconKey(layout.args) \notin FileKeys(csvFile) =>
              layout.result.branch = "geometric"

\* C10: for any content of the layout data file (rows with missing columns,
\* empty cells, non-numeric values) and for a missing file, _calculate_layout
\* never raises.
C10_NeverRaises == layout.status # "raised"

CenterOf(res) ==
    <<RAdd(res.icon_x, RDiv(res.icon_width, R(2))),
      RAdd(res.icon_y, RDiv(res.icon_height, R(2)))>>

\* The same call with icon_scale = 1.0, on the same table content
Unscaled(a) ==
    _calculate_layout(LAYOUT_BOUNDS, csvFile, [a EXCEPT !.icon_scale = R(1)])

\* C2 as stated: for every icon_scale the centre of the icon rectangle equals
\* the centre of the rectangle for icon_scale = 1.0, on the data-driven path
\* and in every geometric fallback mode (A, B, C, other).
C2_CentroidInvariant ==
    layout.status = "ok" =>
        CenterOf(layout.result) = CenterOf(Unscaled(layout.args).result)

\* C2 as amended: the centre is that of the icon_scale = 1.0 rectangle on the
\* data-driven path and in fallback modes A and other; in fallback modes B and
\* C the horizontal centre is unchanged and the vertical centre lies 8% of the
\* (scaled) icon height below the centre of the bounds.
C2_CentroidAmended ==
    layout.status = "ok" =>
        LET a == layout.args
            res == layout.result
            c == CenterOf(res)
            c0 == CenterOf(Unscaled(a).result)
            b == _get_sign_bounds(a.size, a.orientation).bounds
        IN  IF res.branch = "geometric" /\ a.layout_mode \in {"B", "C"}
            THEN /\ c[1] = c0[1]
                 /\ c[1] = center_x(b)
                 /\ c[2] = RAdd(center_y(b), RMul(Rat(8, 100), res.icon_height))
            ELSE c = c0

C2_Witness ==
    /\ layout.status = "ok"
    /\ layout.args.icon_scale = Rat(3, 2)
    /\ layout.args.layout_mode = "B"
    /\ layout.result.branch = "geometric"

----------------------------------------------------------------------------
(* Claims about the rasterizer *)

Running == { i \in 1..Len(futures) : futures[i].state = "RUNNING" }

\* C3: whatever number of caller threads call the render entry points or
\* close_browser concurrently, at most one render or shutdown task is executing
\* at any time, and the engine handles are read and written only by the single
\* executor worker thread, never by a caller thread.
C3_SingleWorkerOwnsEngine ==
    /\ Cardinality(Running) <= 1
    /\ Cardinality({ w \in Workers : worker[w] # 0 }) <= 1
    /\ \A t \in touched : t.thread = "playwright"
    /\ Cardinality(touched) <= 1

C3_Witness ==
    /\ \E c1, c2 \in Callers :
          /\ c1 # c2
          /\ caller[c1].pc = "waiting" /\ caller[c1].api = "close_browser"
          /\ caller[c2].pc = "waiting" /\ caller[c2].api \in RenderApis
    /\ Cardinality(Running) = 1
    /\ workQueue # <<>>
    /\ engine.shutdowns + engine.starts > 0
    /\ touched # {}

C5_StartedAtMostOnce ==
    /\ engine.starts <= 1
    /\ ~engine._initialized =>
          (engine._browser = "None" /\ engine._playwright_instance = "None")

\* C6: requests are executed by the single worker in submission order: a
\* request is started only when every request submitted before it has ended,
\* and a caller leaves its wait only when its own request has been completed
\* by the worker or its timeout has fired.
C6_Fifo ==
    /\ \A i, j \in 1..Len(futures) :
          (i < j /\ futures[j].state # "PENDING") => futures[i].state = "FINISHED"
    /\ \A i \in 1..Len(futures) :
          /\ futures[i].wait = "returned" => futures[i].state = "FINISHED"
          /\ futures[i].wait = "waiting" =>
                \E c \in Callers : caller[c].pc = "waiting" /\ caller[c].fut = i
    /\ \A c \in Callers :
          caller[c].pc = "waiting" => futures[caller[c].fut].wait = "waiting"

C6_Witness ==
    /\ Len(futures) >= 3
    /\ futures[1].state = "FINISHED" /\ futures[1].wait = "returned"
    /\ futures[2].state = "RUNNING"
    /\ futures[3].state = "PENDING" /\ futures[3].wait = "waiting"

----------------------------------------------------------------------------
(* Claims about the product image facade *)

Attempted == { template_types[i] : i \in 1..(gen.idx - 1) }

TemplateOf(k) ==
    TemplateName(lower(product.color), lower(product.size),
                 lower(product.orientation), k)

HasRecord(level, what, about) ==
    \E i \in 1..Len(log) : log[i] = LogRecord(level, what, about)

\* C7: generate_all_images_for_product attempts each of the four kinds exactly
\* once and independently: the map holds a kind if and only if its generation
\* succeeded, a missing template for one kind is logged and neither stops the
\* remaining kinds from being attempted nor removes a generated kind from the
\* map, and the function does not raise for a missing template.
C7_KindsIndependent ==
    /\ [](/\ gen.raised = "none"
          /\ gen.idx \in 1..(Len(template_types) + 1)
          /\ DOMAIN gen.outcomes = Attempted
          /\ \A k \in Attempted :
                /\ k \in DOMAIN gen.images <=> gen.outcomes[k] = "none"
                /\ gen.outcomes[k] = "FileNotFoundError" <=> TemplateOf(k) \notin assets
                /\ TemplateOf(k) \notin assets =>
                      HasRecord("warning", "Template not found", k)
          /\ DOMAIN gen.images \subseteq Attempted)
    /\ [][/\ gen'.idx = gen.idx + 1
          /\ \A k \in DOMAIN gen.images :
                k \in DOMAIN gen'.images /\ gen'.images[k] = gen.images[k]]_vars

C7_Witness ==
    /\ gen.idx = Len(template_types) + 1
    /\ gen.raised = "none"
    /\ "main" \in DOMAIN gen.images
    /\ gen.outcomes["dimensions"] = "FileNotFoundError"
    /\ gen.outcomes["peel_and_stick"] = "FileNotFoundError"
    /\ "rear" \in DOMAIN gen.images
    /\ DOMAIN gen.images = {"main", "rear"}

\* The icon names of the product, and what ICONS_DIR holds for a name
NamedIcons == SelectSeq(product.icon_files, LAMBDA f : f # Blank)

Variants(f) ==
    { IconFile(f.stem, e) : e \in {".svg", ".png", ".SVG", ".PNG"} } \cap DOMAIN ICONS

ResolvesToFile(f) == f \in DOMAIN ICONS \/ Variants(f) # {}

ResolvesToIcon(f) ==
    IF f \in DOMAIN ICONS THEN lower(f.suffix) \in {".svg", ".png"}
    ELSE Variants(f) # {}

IconNodes(doc) == SelectSeq(doc.nodes, LAMBDA n : n.tag \in {"g", "image"})
TextNodes(doc) == SelectSeq(doc.nodes, LAMBDA n : n.tag = "text")

C9_UnknownSizeConfigurationError ==
    \A k \in Attempted :
        (lower(product.size) \notin DOMAIN SIZES /\ TemplateOf(k) \in assets) =>
            /\ k \notin DOMAIN gen.submitted
            /\ gen.outcomes[k] = "ConfigurationError"

----------------------------------------------------------------------------
(* Claims about single calls of the facade *)

Generators == {"generate_product_image", "generate_master_svg_for_product"}

EffectiveNumber(p, key, default) ==
    IF key \in DOMAIN p /\ p[key] # Null /\ p[key].num # R(0)
    THEN p[key].num ELSE default

\* C11: for each of size, color, orientation, icon_scale, text_scale,
\* icon_offset_x and icon_offset_y, both when the key is missing and when its
\* value is None, generate_product_image and generate_master_svg_for_product
\* proceed with the documented default instead of failing: no call ends with
\* the exception of a None value, and the layout is calculated for the
\* default size, orientation and scales.
C11_DefaultsForMissingAndNone ==
    call.op \in Generators =>
        /\ call.out.raised \in {"none", "FileNotFoundError", "KeyError",
                                "ValueError", "TimeoutError"}
        /\ layout.status = "ok" =>
              /\ layout.args.size = Effective(product, "size", "saville")
              /\ layout.args.orientation =
                    Effective(product, "orientation", "landscape")
              /\ layout.args.icon_scale = EffectiveNumber(product, "icon_scale", R(1))
              /\ layout.args.text_scale = EffectiveNumber(product, "text_scale", R(1))

\* The record with both offsets set to 0.0
ZeroOffset(p) ==
    [k \in DOMAIN p |->
        IF k \in {"icon_offset_x", "icon_offset_y"} THEN Num(R(0)) ELSE p[k]]

\* The document a call composed, and the one the same call composes for q
Composed(c) == IF "doc" \in DOMAIN c.out THEN c.out.doc ELSE c.out.svg

HasDocument(c) ==
    c.op \in Generators /\ ("doc" \in DOMAIN c.out \/ "svg" \in DOMAIN c.out)

ComposedFor(op, q) ==
    IF op = "generate_product_image"
    THEN generate_product_image(q, "main", LAYOUT_BOUNDS, csvFile, assets,
                                layout, "png").doc
    ELSE generate_master_svg_for_product(q, LAYOUT_BOUNDS, csvFile, assets,
                                         layout).svg

\* Where an injected icon node is placed, and everything else about it
Origin(n) == IF n.tag = "g" THEN n.translate ELSE <<n.x, n.y>>
Unplaced(n) ==
    IF n.tag = "g" THEN [n EXCEPT !.translate = <<R(0), R(0)>>]
    ELSE [n EXCEPT !.x = R(0), !.y = R(0)]

\* C12: the final icon position is the layout's icon position plus the user
\* offset: against the same product with offsets (0, 0), an offset (dx, dy)
\* shifts every injected icon by exactly (dx, dy) and leaves the icon's scale,
\* width and height, every text node and the template unchanged.
C12_OffsetShiftsIconOnly ==
    HasDocument(call) =>
        LET doc == Composed(call)
            base == ComposedFor(call.op, ZeroOffset(product))
            dx == EffectiveNumber(product, "icon_offset_x", R(0))
            dy == EffectiveNumber(product, "icon_offset_y", R(0))
        IN  /\ doc.template = base.template
            /\ Len(doc.nodes) = Len(base.nodes)
            /\ TextNodes(doc) = TextNodes(base)
            /\ \A i \in 1..Len(IconNodes(doc)) :
                  /\ Origin(IconNodes(doc)[i]) =
                        <<RAdd(Origin(IconNodes(base)[i])[1], dx),
                          RAdd(Origin(IconNodes(base)[i])[2], dy)>>
                  /\ Unplaced(IconNodes(doc)[i]) = Unplaced(IconNodes(base)[i])

C12_Witness ==
    /\ HasDocument(call)
    /\ call.op = "generate_product_image"
    /\ "icon_offset_x" \in DOMAIN product /\ product.icon_offset_x = Num(R(10))
    /\ "icon_offset_y" \in DOMAIN product /\ product.icon_offset_y = Num(R(0 - 5))
    /\ Len(IconNodes(Composed(call))) = 2
    /\ Len(TextNodes(Composed(call))) = 1

----------------------------------------------------------------------------
(* Claims about the two branches of the layout calculator *)

IconRect(res) ==
    <<res.icon_x, res.icon_y, res.icon_width, res.icon_height>>

\* What the geometric formula gives for the arguments of a call
FallbackFor(a) ==
    GeometricLayout(_get_sign_bounds(a.size, a.orientation).bounds,
                    a.layout_mode, ActiveLines(a.text_lines),
                    a.icon_scale, a.text_scale)

HasIconEntry == layout.status = "ok" /\ IconKey(layout.args) \in DOMAIN LAYOUT_BOUNDS

LayoutOn(table, bounds, a) ==
    LayoutFrom(table, bounds, a.layout_mode, a.text_lines, a.icon_scale,
               a.text_scale, a.size, a.orientation)

OnlyEntry(k) == [j \in {k} |-> LAYOUT_BOUNDS[j]]

OtherBounds == SignBounds(R(37), R(27), R(85), R(85), TRUE, R(4))

\* C14: the icon rectangle comes from exactly one source.  With an icon entry
\* for the key it is a function of that entry and icon_scale only: the same
\* for other sign bounds and padding, for another mode formula, and without
\* the other entries of the table.  Without an icon entry the whole result is
\* a function of the sign bounds, the mode letter and the scales only: the
\* same as on an empty table, text_N entries for the same key included.
C14_ExactlyOneSource ==
    layout.status = "ok" =>
        LET a == layout.args
            res == layout.result
            bounds == _get_sign_bounds(a.size, a.orientation).bounds
        IN  IF IconKey(a) \in DOMAIN LAYOUT_BOUNDS
            THEN LET e == LAYOUT_BOUNDS[IconKey(a)]
                 IN  /\ res.branch = "data"
                     /\ IconRect(res) =
                           <<RAdd(e.x, RDiv(RSub(e.width, RMul(e.width, a.icon_scale)), R(2))),
                             RAdd(e.y, RDiv(RSub(e.height, RMul(e.height, a.icon_scale)), R(2))),
                             RMul(e.width, a.icon_scale),
                             RMul(e.height, a.icon_scale)>>
                     /\ IconRect(res) = IconRect(LayoutOn(LAYOUT_BOUNDS, OtherBounds, a))
                     /\ IconRect(res) = IconRect(LayoutOn(OnlyEntry(IconKey(a)), bounds, a))
            ELSE /\ res.branch = "geometric"
                 /\ res = LayoutOn(EmptyTable, bounds, a)
                 /\ res = FallbackFor(a)

C14_Witness ==
    /\ layout.status = "ok"
    /\ IconKey(layout.args) \notin DOMAIN LAYOUT_BOUNDS
    /\ <<"main", layout.args.size, layout.args.orientation,
         layout.args.layout_mode, "text_1">> \in DOMAIN LAYOUT_BOUNDS
    /\ layout.args.layout_mode = "B"
    /\ Len(layout.result.text_elements) = 2

\* C15: for baby_jesus, _get_sign_bounds with orientation "portrait" returns
\* a rectangle whose width is the landscape call's height and whose height is
\* the landscape call's width, with x, y, circularity and padding unchanged;
\* for every other size the result for "portrait" is the result for
\* "landscape".
C15_OrientationSwap ==
    layout.status = "ok" =>
        LET size == layout.args.size
            land == _get_sign_bounds(size, "landscape").bounds
            port == _get_sign_bounds(size, "portrait").bounds
        IN  IF size = "baby_jesus"
            THEN /\ port.width = land.height
                 /\ port.height = land.width
                 /\ port.width # land.width
                 /\ port = [land EXCEPT !.width = land.height,
                                        !.height = land.width]
            ELSE port = land

C15_Witness ==
    /\ layout.status = "ok"
    /\ layout.args.size = "baby_jesus"
    /\ layout.args.orientation = "portrait"
    /\ layout.args.layout_mode = "A"
    /\ layout.args.icon_scale = R(1)
    /\ layout.result.branch = "geometric"
    /\ RLess(layout.result.icon_width, layout.result.icon_height)

\* C16: /api/preview/<m_number> never turns a core failure into an HTTP
\* error: for an existing product every exception of generate_product_image
\* (missing template, unknown size, unreadable layout data, render timeout)
\* yields a successful response carrying the placeholder image, and only an
\* unknown m_number yields 404.
C16_PreviewNeverFails ==
    call.op = "preview_product" =>
        LET response == call.response
        IN  /\ response.status \in {200, 404}
            /\ response.status = 404 <=> call.m_number # product.m_number
            /\ call.m_number = product.m_number =>
                  IF call.raised = "none"
                  THEN /\ response.mimetype = "image/png"
                       /\ "png_of" \in DOMAIN response.body
                  ELSE /\ response.mimetype = "image/svg+xml"
                       /\ response.body.placeholder_for = call.m_number

C16_Witness ==
    /\ call.op = "preview_product"
    /\ call.m_number = product.m_number
    /\ call.raised \in {"KeyError", "ValueError", "TimeoutError", "AttributeError"}
    /\ call.response.status = 200
    /\ call.response.mimetype = "image/svg+xml"

\* The file name of a template kind for the product, with the _portrait
\* variant exactly for a portrait baby_jesus
TemplateFile(kind) ==
    LET color == Effective(product, "color", "silver")
        size == Effective(product, "size", "saville")
        orientation == Effective(product, "orientation", "landscape")
    IN  IF size = "baby_jesus" /\ orientation = "portrait"
        THEN <<color, size, "portrait", kind>>
        ELSE <<color, size, kind>>

\* C17: generate_master_svg_for_product uses the master_design_file template
\* when that file exists, otherwise the main template of the same color and
\* size (with the _portrait variant exactly for a portrait baby_jesus); it
\* fails with FileNotFoundError only when both are missing, and it returns
\* the composed document without submitting anything to the rasterizer.
C17_MasterTemplateFallback ==
    (call.op = "generate_master_svg_for_product"
        /\ call.out.raised # "AttributeError") =>
        LET master == TemplateFile("master_design_file")
            main == TemplateFile("main")
        IN  /\ call.out.raised = "FileNotFoundError" <=>
                  (master \notin assets /\ main \notin assets)
            /\ call.out.raised = "none" <=> "svg" \in DOMAIN call.out
            /\ "svg" \in DOMAIN call.out =>
                  call.out.svg.template = IF master \in assets THEN master ELSE main
            /\ "doc" \notin DOMAIN call.out
            /\ call.out.raised \notin RenderOutcomes
            /\ futures = <<>> /\ workQueue = <<>>

C17_Witness ==
    /\ call.op = "generate_master_svg_for_product"
    /\ assets = {<<"silver", "baby_jesus", "portrait", "main">>}
    /\ call.out.raised = "none"
    /\ call.out.svg.template = <<"silver", "baby_jesus", "portrait", "main">>
    /\ Len(IconNodes(call.out.svg)) = 2

----------------------------------------------------------------------------
(* Claims about the injectors *)

\* An injection of an icon of positive width # height into a square target
SquareInjection ==
    /\ call.op \in {"_inject_icon", "_inject_png_icon"}
    /\ call.icon.size[1] > 0 /\ call.icon.size[2] > 0
    /\ call.icon.size[1] # call.icon.size[2]
    /\ call.width = call.height

UsedScale ==
    IF call.op = "_inject_icon" THEN call.node.scale
    ELSE RDiv(call.node.width, R(call.icon.size[1]))

Residual == <<RSub(Origin(call.node)[1], call.x), RSub(Origin(call.node)[2], call.y)>>

\* the dimension (1 = x, 2 = y) whose ratio target/intrinsic is the minimum
Limiting == IF call.icon.size[1] > call.icon.size[2] THEN 1 ELSE 2

\* C18 as stated: the scale used is min(target_w/intrinsic_w,
\* target_h/intrinsic_h) for vector and raster icons, and the scaled icon has
\* zero residual offset in the dimension where the scale was not the limiting
\* factor.
C18_ZeroResidualWhereNotLimiting ==
    SquareInjection =>
        /\ UsedScale = RMin(RDiv(call.width, R(call.icon.size[1])),
                            RDiv(call.height, R(call.icon.size[2])))
        /\ Residual[3 - Limiting] = R(0)

\* C18 as amended: the scale used is that minimum, the scaled icon spans the
\* target exactly in the limiting dimension (zero residual offset there) and
\* is centred in the other one, with half of the space left over on each side.
C18_ScaledAndCentred ==
    SquareInjection =>
        LET w == R(call.icon.size[1])
            h == R(call.icon.size[2])
            sx == RDiv(call.width, w)
            sy == RDiv(call.height, h)
            scaled == <<RMul(w, UsedScale), RMul(h, UsedScale)>>
            free == 3 - Limiting
        IN  /\ UsedScale = (IF RLess(sx, sy) THEN sx ELSE sy)
            /\ Residual[Limiting] = R(0)
            /\ scaled[Limiting] = call.width
            /\ RLess(R(0), Residual[free])
            /\ RAdd(RMul(R(2), Residual[free]), scaled[free]) = call.width
            /\ call.op = "_inject_png_icon" =>
                  <<call.node.width, call.node.height>> = scaled

C18_Witness ==
    /\ SquareInjection
    /\ call.op = "_inject_png_icon"
    /\ call.icon.size = <<200, 100>>
    /\ call.width = R(40)
    /\ UsedScale = Rat(1, 5)
    /\ Residual = <<R(0), R(10)>>

----------------------------------------------------------------------------
(* Claims about abandoned renders *)

Queued(i) == \E k \in 1..Len(workQueue) : workQueue[k] = i

OnWorker(i) == \E w \in Workers : worker[w] = i

\* No future is cancelled or dropped: a future that is not finished is in the
\* work queue or on the worker, whether or not its caller still waits, and
\* nothing submitted after a render that occupies the worker has started.
NotCancelled ==
    \A i \in 1..Len(futures) :
        /\ futures[i].state \in {"PENDING", "RUNNING", "FINISHED"}
        /\ futures[i].state = "PENDING" => (Queued(i) /\ ~OnWorker(i))
        /\ futures[i].state = "RUNNING" =>
              /\ OnWorker(i) /\ ~Queued(i)
              /\ \A w \in Workers : worker[w] = i
              /\ \A j \in (i + 1)..Len(futures) :
                    futures[j].state = "PENDING" /\ Queued(j)

\* A future leaves the worker only by the end of its render, and a caller's
\* timeout changes neither a future's state nor the queue nor the worker.
OnlyTheWorkerEnds ==
    /\ \A i \in 1..Len(futures) :
          futures'[i].state # futures[i].state =>
              \/ futures[i].state = "PENDING" /\ futures'[i].state = "RUNNING"
              \/ /\ futures[i].state = "RUNNING" /\ futures'[i].state = "FINISHED"
                 /\ \E w \in Workers : WorkerRun(w)
    /\ (\E c \in Callers : Timeout(c)) =>
          /\ workQueue' = workQueue /\ worker' = worker
          /\ \A i \in 1..Len(futures) : futures'[i].state = futures[i].state

\* C19: a render whose caller has timed out is not cancelled: it keeps
\* occupying the single worker until its render ends, every render submitted
\* after it stays queued and not started until then, and a request that was
\* still queued when its caller timed out is executed later by the worker.
C19_AbandonedStillRuns ==
    /\ []NotCancelled
    /\ [][OnlyTheWorkerEnds]_vars
    /\ \A i \in 1..MaxTasks :
          (i <= Len(futures) /\ futures[i].abandoned = "PENDING")
              ~> (/\ i <= Len(futures)
                  /\ futures[i].state = "FINISHED" /\ futures[i].result # "none")

C19_Witness ==
    /\ Len(futures) >= 2
    /\ futures[1].abandoned = "RUNNING" /\ futures[1].state = "FINISHED"
    /\ futures[2].fn # "_shutdown"
    /\ futures[2].abandoned = "PENDING" /\ futures[2].wait = "TimeoutError"
    /\ futures[2].state = "FINISHED" /\ futures[2].result = "png"

----------------------------------------------------------------------------
(* Claims about the text elements of the data-driven branch *)

\* The input positions of the non-empty lines, and the place of position p
\* among them
NonEmptyAt(t) == { p \in 1..Len(t) : t[p] # "" /\ t[p] # PyNone }

RankAmongNonEmpty(t, p) == Cardinality({ q \in NonEmptyAt(t) : q <= p })

SlotKey(a, r) ==
    <<"main", a.size, a.orientation, a.layout_mode,
      <<"text_1", "text_2", "text_3">>[r]>>

\* The input positions, in order, of the lines that have a slot entry
PlacedPositions(a) ==
    SelectSeq([p \in 1..Len(a.text_lines) |-> p],
              LAMBDA p : /\ p \in NonEmptyAt(a.text_lines)
                         /\ SlotKey(a, RankAmongNonEmpty(a.text_lines, p))
                               \in DOMAIN LAYOUT_BOUNDS)

\* C20: on the data-driven path the text elements are exactly, in input
\* order, the non-empty lines whose slot text_{i+1} has a table entry, i being
\* the line's index among the non-empty lines; a non-empty line without a slot
\* entry is left out without error and an empty line never gives an element.
C20_TextElementsBySlot ==
    (layout.status = "ok" /\ layout.result.branch = "data") =>
        LET a == layout.args
            els == layout.result.text_elements
            ps == PlacedPositions(a)
        IN  /\ Len(els) = Len(ps)
            /\ \A k \in 1..Len(ps) :
                  LET tb == LAYOUT_BOUNDS[SlotKey(a, RankAmongNonEmpty(a.text_lines, ps[k]))]
                  IN  /\ els[k].text = a.text_lines[ps[k]]
                      /\ els[k].x = RAdd(tb.x, RDiv(tb.width, R(2)))
                      /\ els[k].y = RAdd(tb.y, RMul(tb.height, Rat(3, 4)))
            /\ \A k \in 1..Len(els) : els[k].text # "" /\ els[k].text # PyNone

C20_Witness ==
    /\ layout.status = "ok"
    /\ layout.result.branch = "data"
    /\ layout.args.text_lines = <<"NO", "", "ENTRY">>
    /\ SlotKey(layout.args, 1) \notin DOMAIN LAYOUT_BOUNDS
    /\ SlotKey(layout.args, 2) \in DOMAIN LAYOUT_BOUNDS
    /\ Len(layout.result.text_elements) = 1
    /\ layout.result.text_elements[1].text = "ENTRY"

----------------------------------------------------------------------------
(* Claims about font sizes *)

RLeq(a, b) == a = b \/ RLess(a, b)

Ceiling(text_scale) == RMul(R(5), text_scale)

\* The table box of the k-th text element of a data-driven result
BoxOf(a, k) ==
    LAYOUT_BOUNDS[SlotKey(a, RankAmongNonEmpty(a.text_lines, PlacedPositions(a)[k]))]

\* C21 as stated: every text element returned by _calculate_layout, on the
\* data-driven path and on the geometric fallback path, has a font size not
\* greater than 5.0 * text_scale.
C21_FontSizeWithinCeiling ==
    layout.status = "ok" =>
        \A k \in 1..Len(layout.result.text_elements) :
            RLeq(layout.result.text_elements[k].font_size,
                 Ceiling(layout.args.text_scale))

\* C21 as amended: on the geometric fallback path every text element has the
\* font size 5.0 * text_scale; on the data-driven path the ceiling of an
\* element is a third of its box's height times text_scale (and its box's
\* width / (3.2 * characters) times text_scale), which is above
\* 5.0 * text_scale for a box higher than 15.
C21_CeilingPerPath ==
    layout.status = "ok" =>
        LET a == layout.args
            els == layout.result.text_elements
        IN  \A k \in 1..Len(els) :
              IF layout.result.branch = "geometric"
              THEN els[k].font_size = Ceiling(a.text_scale)
              ELSE /\ RLeq(els[k].font_size,
                           RMul(RDiv(BoxOf(a, k).height, R(3)), a.text_scale))
                   /\ RLeq(els[k].font_size,
                           RMul(RDiv(BoxOf(a, k).width,
                                     RMul(R(Len(els[k].text)), Rat(16, 5))),
                                a.text_scale))
                   /\ RLess(R(15), BoxOf(a, k).height)
                         /\ RLess(R(16 * Len(els[k].text)), BoxOf(a, k).width)
                      => RLess(Ceiling(a.text_scale), els[k].font_size)

C21_Witness ==
    /\ layout.status = "ok"
    /\ layout.result.branch = "data"
    /\ layout.args.text_scale = R(2)
    /\ Len(layout.result.text_elements) = 1
    /\ layout.result.text_elements[1].text = "A"
    /\ layout.result.text_elements[1].font_size = R(20)

\* C22: for a data-driven text box and a non-empty line of n characters the
\* font size is min(box_width / (n * 3.2), box_height / 3.0) * text_scale, the
\* anchor is (box x + width / 2, box y + 0.75 * height) and the anchor mode is
\* "middle"; text_scale 2.0, a box 40 wide and 10 high and a 4-character line
\* give the font size 6.25.
C22_DataDrivenFontSize ==
    (layout.status = "ok" /\ layout.result.branch = "data") =>
        LET a == layout.args
            els == layout.result.text_elements
        IN  \A k \in 1..Len(els) :
              LET tb == BoxOf(a, k)
                  n == Len(els[k].text)
                  w == RDiv(tb.width, RDiv(R(n * 32), R(10)))
                  h == RDiv(tb.height, R(3))
              IN  /\ n > 0
                  /\ els[k].font_size =
                        RMul(IF RLess(h, w) THEN h ELSE w, a.text_scale)
                  /\ <<els[k].x, els[k].y>> =
                        <<RAdd(tb.x, RDiv(tb.width, R(2))),
                          RAdd(tb.y, RDiv(RMul(R(3), tb.height), R(4)))>>
                  /\ els[k].anchor = "middle"
                  /\ (a.text_scale = R(2) /\ tb.width = R(40) /\ tb.height = R(10)
                        /\ n = 4) => els[k].font_size = Rat(625, 100)

C22_Witness ==
    /\ layout.status = "ok"
    /\ layout.result.branch = "data"
    /\ layout.args.text_scale = R(2)
    /\ Len(layout.result.text_elements) = 1
    /\ layout.result.text_elements[1].text = "STOP"
    /\ BoxOf(layout.args, 1).width = R(40)
    /\ BoxOf(layout.args, 1).height = R(10)
    /\ layout.result.text_elements[1].font_size = Rat(25, 4)

----------------------------------------------------------------------------
(* Claims about the geometric fallback *)

Geometric == layout.status = "ok" /\ layout.result.branch = "geometric"

\* The sign rectangle and padding of a size, read from the tables
TableBounds(size, orientation) ==
    LET t == TEMPLATE_SIGN_BOUNDS[size]
        swap == size = "baby_jesus" /\ orientation = "portrait"
    IN  [x |-> R(t[1]), y |-> R(t[2]),
         width |-> R(IF swap THEN t[4] ELSE t[3]),
         height |-> R(IF swap THEN t[3] ELSE t[4]),
         padding |-> IF SIZES[size][3] THEN R(4) ELSE R(3)]

Inset(b) ==
    <<RSub(RSub(b.width, b.padding), b.padding),
      RSub(RSub(b.height, b.padding), b.padding)>>

Share(mode) == IF mode = "A" THEN Rat(70, 100) ELSE Rat(60, 100)

\* C23: on the geometric fallback path mode "A" gives an icon rectangle of 70%
\* of the inset width and height times icon_scale, any mode letter other than
\* A, B, C gives 60% times icon_scale, both centred on the centre of the full
\* bounds rectangle; for dracula, mode A, icon_scale 1.0 the bounds are those
\* of TEMPLATE_SIGN_BOUNDS["dracula"] with padding 4.0 for either orientation.
C23_ModeAAndDefault ==
    (Geometric /\ layout.args.layout_mode \notin {"B", "C"}) =>
        LET a == layout.args
            res == layout.result
            b == TableBounds(a.size, a.orientation)
        IN  /\ res.icon_width = RMul(RMul(Inset(b)[1], Share(a.layout_mode)), a.icon_scale)
            /\ res.icon_height = RMul(RMul(Inset(b)[2], Share(a.layout_mode)), a.icon_scale)
            /\ RAdd(res.icon_x, RDiv(res.icon_width, R(2))) = RAdd(b.x, RDiv(b.width, R(2)))
            /\ RAdd(res.icon_y, RDiv(res.icon_height, R(2))) = RAdd(b.y, RDiv(b.height, R(2)))
            /\ (a.size = "dracula" /\ a.layout_mode = "A" /\ a.icon_scale = R(1)) =>
                  /\ b = [x |-> R(37), y |-> R(27), width |-> R(85),
                          height |-> R(85), padding |-> R(4)]
                  /\ IconRect(res) = <<Rat(5255, 100), Rat(4255, 100),
                                       Rat(539, 10), Rat(539, 10)>>

C23_Witness ==
    /\ Geometric
    /\ layout.args.size = "dracula"
    /\ layout.args.orientation = "portrait"
    /\ layout.args.layout_mode = "A"
    /\ layout.args.icon_scale = R(1)
    /\ layout.result.icon_width = Rat(539, 10)

GeometricBC == Geometric /\ layout.args.layout_mode \in {"B", "C"}

\* The centre of the returned icon relative to the centre of the bounds
CentreShift ==
    LET b == TableBounds(layout.args.size, layout.args.orientation)
        res == layout.result
    IN  <<RSub(RAdd(res.icon_x, RDiv(res.icon_width, R(2))),
               RAdd(b.x, RDiv(b.width, R(2)))),
          RSub(RAdd(res.icon_y, RDiv(res.icon_height, R(2))),
               RAdd(b.y, RDiv(b.height, R(2))))>>

SquareSide ==
    RMul(RMul(Inset(TableBounds(layout.args.size, layout.args.orientation))[2],
              Rat(90, 100)),
         layout.args.icon_scale)

\* C24 as stated: on the geometric fallback path with mode "B" or "C" the
\* icon is a square of side 0.90 * inset height * icon_scale, centred
\* horizontally on the bounds, and offset upward (toward smaller y) from the
\* true vertical centre by 8% of its own height.
C24_OffsetUpward ==
    GeometricBC =>
        /\ layout.result.icon_width = SquareSide
        /\ layout.result.icon_height = SquareSide
        /\ CentreShift = <<R(0), RSub(R(0), RMul(SquareSide, Rat(8, 100)))>>

\* C24 as amended: the same square, centred horizontally on the bounds, and
\* offset downward (toward larger y in template coordinates) from the true
\* vertical centre by 8% of its own height.
C24_OffsetDownward ==
    GeometricBC =>
        /\ layout.result.icon_width = SquareSide
        /\ layout.result.icon_height = SquareSide
        /\ CentreShift = <<R(0), RMul(SquareSide, Rat(8, 100))>>
        /\ RLess(R(0), CentreShift[2])

C24_Witness ==
    /\ GeometricBC
    /\ layout.args.size = "saville"
    /\ layout.args.layout_mode = "C"
    /\ layout.args.icon_scale = R(1)
    /\ layout.result.icon_height = Rat(603, 10)
    /\ layout.result.icon_y = Rat(35174, 1000)

\* The non-empty lines of a call, in input order
NonEmptyLines(t) ==
    LET ps == SelectSeq([p \in 1..Len(t) |-> p], LAMBDA p : p \in NonEmptyAt(t))
    IN  [k \in 1..Len(ps) |-> t[ps[k]]]

\* C30: on the geometric fallback path text elements are produced only for
\* modes "B" and "C": one element per non-empty line, in order, each at the
\* bounds' horizontal centre, with strictly increasing y starting below the
\* icon's bottom edge; for mode "A" and every other mode letter the list is
\* empty whatever text lines are supplied.
C30_FallbackTextOnlyBC ==
    Geometric =>
        LET a == layout.args
            res == layout.result
            els == res.text_elements
            b == TableBounds(a.size, a.orientation)
        IN  IF a.layout_mode \in {"B", "C"}
            THEN /\ [k \in 1..Len(els) |-> els[k].text] = NonEmptyLines(a.text_lines)
                 /\ \A k \in 1..Len(els) :
                       /\ els[k].x = RAdd(b.x, RDiv(b.width, R(2)))
                       /\ els[k].anchor = "middle"
                       /\ RLess(RAdd(res.icon_y, res.icon_height), els[k].y)
                       /\ k > 1 => RLess(els[k - 1].y, els[k].y)
            ELSE els = <<>>

C30_Witness ==
    /\ Geometric
    /\ layout.args.layout_mode = "B"
    /\ layout.args.text_lines = <<PyNone, "GO", "SLOW">>
    /\ Len(layout.result.text_elements) = 2
    /\ layout.result.text_elements[2].text = "SLOW"
    /\ RLess(layout.result.text_elements[1].y, layout.result.text_elements[2].y)

\* Mode "A" and another letter with three lines supplied
C30_WitnessNoText ==
    /\ Geometric
    /\ layout.args.layout_mode = "D"
    /\ layout.args.text_lines = <<"A", "BB", "CCC">>
    /\ layout.result.text_elements = <<>>

----------------------------------------------------------------------------
(* Claims about concurrent layout calls *)

\* What a call computes from one version of the file alone
FromVersion(v, a) == _calculate_layout(EmptyTable, v, a).result

\* C28: when several _calculate_layout calls run concurrently on different
\* request threads while the layout data file is edited, each call computes
\* its icon rectangle and all its text elements from one single version of the
\* file: it never combines the icon box of one version with the text boxes of
\* another and never observes a partly written table.
C28_OneVersionPerCall ==
    \A t \in Threads :
        (req[t].pc = "done" /\ req[t].status = "ok") =>
            \E k \in 1..Len(saves) : req[t].result = FromVersion(saves[k], req[t].args)

----------------------------------------------------------------------------
(* Claims about background jobs *)

Terminal == {"COMPLETED", "FAILED"}

\* The queue entries not yet looked up: in the queue, or just taken by a worker
PendingEntries ==
    { _job_queue[i] : i \in 1..Len(_job_queue) }
    \cup { [job_id |-> jobThread[w].job_id, func |-> jobThread[w].func,
            sub |-> jobThread[w].sub] :
             w \in { x \in JobWorkers : jobThread[x].pc = "lookup" } }

RunsOf(sub) == { i \in 1..Len(runs) : runs[i].sub = sub }

RegisteredBeforeDequeue == \A en \in PendingEntries : en.job_id \in DOMAIN _jobs

RunOnce ==
    \A sub \in 1..Len(jobHeap) :
        /\ Cardinality(RunsOf(sub)) <= 1
        /\ jobHeap[sub].status \in Terminal => Cardinality(RunsOf(sub)) = 1

TerminalIsComplete ==
    \A k \in 1..Len(jobHeap) :
        jobHeap[k].status \in Terminal =>
            /\ jobHeap[k].completed_at # Never
            /\ jobHeap[k].status = "COMPLETED" =>
                  (jobHeap[k].progress = jobHeap[k].total /\ jobHeap[k].result # PyNone)
            /\ jobHeap[k].status = "FAILED" => jobHeap[k].error # PyNone

StatusMovesForward ==
    \A k \in 1..Len(jobHeap) :
        jobHeap'[k].status # jobHeap[k].status =>
            <<jobHeap[k].status, jobHeap'[k].status>> \in
                {<<"PENDING", "RUNNING">>, <<"RUNNING", "COMPLETED">>,
                 <<"RUNNING", "FAILED">>}

\* C26: for every job submitted through submit_job, under any interleaving of
\* submitters and worker threads: the job is registered in the store before
\* it can be dequeued, its function is run exactly once by exactly one worker,
\* its status only moves PENDING to RUNNING to COMPLETED or FAILED, and once
\* terminal completed_at is set, COMPLETED implies progress = total and a
\* stored result, FAILED implies error is set.
C26_JobLifecycle ==
    /\ [](RegisteredBeforeDequeue /\ RunOnce /\ TerminalIsComplete)
    /\ [][StatusMovesForward]_vars

----------------------------------------------------------------------------
(* Claims about clearing the job store *)

FinishedLongAgo(job, t) ==
    /\ job.status \in Terminal
    /\ job.completed_at # Never
    /\ t - job.completed_at[1] > OneHour

\* C25: clear_completed_jobs removes exactly the jobs whose status is
\* COMPLETED or FAILED and whose completed_at lies more than one hour before
\* now, for every age (including ages of a day or more), and leaves every
\* pending, running or more recently finished job in the store.
C25_RemovesOlderThanOneHour ==
    cleared.op = "clear_completed_jobs" =>
        \A job_id \in DOMAIN cleared.before :
            job_id \notin DOMAIN _jobs
                <=> FinishedLongAgo(jobHeap[cleared.before[job_id]], now)

----------------------------------------------------------------------------
(* Claims about the resources of a render call *)

\* C27: after any render call ends, whether it returned PNG bytes or raised
\* at any step (context creation, page creation, temp file write, navigation,
\* screenshot, page close), the browser context, the page and the temporary
\* SVG file created by that call have all been released, so no number of
\* failed renders accumulates open contexts or leftover temp files.
C27_ReleasedAfterCall ==
    impl.pc = "idle" => (contexts = {} /\ pages = {} /\ tempFiles = {})

----------------------------------------------------------------------------
(* Claims about the batch job *)

Raises(p, upload_to_r2) ==
    \/ p.does.raises = "generate_all_images_for_product"
    \/ upload_to_r2 /\ p.does.images # {} /\ p.does.raises = "upload_png_and_jpeg"

EntryForEveryProduct ==
    batch.pc = "returned" =>
        /\ DOMAIN batch.results = { batch.products[k].m_number : k \in 1..Len(batch.products) }
        /\ \A k \in 1..Len(batch.products) :
              LET p == batch.products[k]
                  entry == batch.results[p.m_number]
              IN  IF Raises(p, batch.upload_to_r2)
                  THEN entry = [success |-> FALSE, error |-> p.does.raises]
                  ELSE entry.success
        /\ batch.job.total = Len(batch.products)
        /\ batch.job.progress = batch.job.total

ProgressNeverDecreases ==
    (batch.pc # "none" /\ batch'.pc # "none") =>
        batch'.job.progress >= batch.job.progress

\* C29: generate_images_job returns a result entry for every product of its
\* input, keyed by m_number: an exception while processing one product is
\* recorded as success False with the error for that product and does not
\* stop the processing of later products; job.progress never decreases during
\* the run and equals job.total (the number of products) when the job
\* function returns.
C29_EntryPerProduct ==
    /\ []EntryForEveryProduct
    /\ [][ProgressNeverDecreases]_vars

\* A returned call whose second product raised and whose third succeeded
C29_Witness ==
    /\ batch.pc = "returned"
    /\ Len(batch.products) = 3
    /\ Raises(batch.products[2], batch.upload_to_r2)
    /\ ~Raises(batch.products[3], batch.upload_to_r2)
    /\ batch.results[batch.products[3].m_number].success

====
